---- MODULE Spec2Model ----
(***************************************************************************)
(* A model of sequal-go: the ProForma parser (proforma.go), the            *)
(* modification-value micro-grammar (modification_value.go, pipe_value.go),*)
(* the modification factory (modification.go, global_modification.go) and  *)
(* the sequence assembly and serializer (sequence.go).                     *)
(*                                                                         *)
(* A Go string is a sequence of one-character strings; indices are the     *)
(* 0-based byte offsets of the Go code (At, Slice).  An optional value     *)
(* (a Go pointer that may be nil) is <<>> for nil and <<v>> for &v.        *)
(***************************************************************************)
EXTENDS Integers, Sequences, FiniteSets, TLC

\* ------------------------------------------------------------------ strings

None == <<>>

Some(v) == <<v>>

IsSome(o) == o # <<>>

Val(o) == o[1]

At(s, i) == s[i + 1]

Slice(s, a, b) == SubSeq(s, a + 1, b)

From(s, a) == SubSeq(s, a + 1, Len(s))

HasPrefix(s, p) == Len(s) >= Len(p) /\ SubSeq(s, 1, Len(p)) = p

HasSuffix(s, p) == Len(s) >= Len(p) /\ SubSeq(s, Len(s) - Len(p) + 1, Len(s)) = p

TrimPrefix(s, p) == IF HasPrefix(s, p) THEN From(s, Len(p)) ELSE s

MatchAt(s, i, sub) == i + Len(sub) <= Len(s) /\ Slice(s, i, i + Len(sub)) = sub

\* the least of a non-empty set of integers
Least(S) == CHOOSE i \in S : \A j \in S : i <= j

Contains(s, sub) == \E i \in 0..Len(s) : MatchAt(s, i, sub)

\* strings.Index: the first offset at which sub occurs, or -1
Index(s, sub) ==
    IF Contains(s, sub) THEN Least({i \in 0..Len(s) : MatchAt(s, i, sub)}) ELSE -1

ContainsChar(s, c) == \E i \in 1..Len(s) : s[i] = c

Count(s, c) == Cardinality({i \in 1..Len(s) : s[i] = c})

RECURSIVE Split(_, _)

\* s split at the offset i of the first separator, -1 for none
splitAt(s, sep, i) ==
    IF i = -1 THEN <<s>>
    ELSE <<Slice(s, 0, i)>> \o Split(From(s, i + Len(sep)), sep)

\* strings.Split(s, sep) for a non-empty separator
Split(s, sep) == splitAt(s, sep, Index(s, sep))

\* s cut in two at the offset i of the first separator, -1 for none
cutAt(s, sep, i) ==
    IF i = -1 THEN <<s>> ELSE <<Slice(s, 0, i), From(s, i + Len(sep))>>

\* strings.SplitN(s, sep, 2)
SplitN2(s, sep) == cutAt(s, sep, Index(s, sep))

\* strings.Join
RECURSIVE Join(_, _)
Join(parts, sep) ==
    IF parts = <<>> THEN <<>>
    ELSE IF Len(parts) = 1 THEN parts[1]
    ELSE parts[1] \o sep \o Join(Tail(parts), sep)

\* strings.ReplaceAll(s, " ", "")
RECURSIVE RemoveSpaces(_)
RemoveSpaces(s) ==
    IF s = <<>> THEN <<>>
    ELSE IF Head(s) = " " THEN RemoveSpaces(Tail(s))
    ELSE <<Head(s)>> \o RemoveSpaces(Tail(s))

Digits == {"0", "1", "2", "3", "4", "5", "6", "7", "8", "9"}

Upper == {"A", "B", "C", "D", "E", "F", "G", "H", "I", "J", "K", "L", "M",
          "N", "O", "P", "Q", "R", "S", "T", "U", "V", "W", "X", "Y", "Z"}

Lower == {"a", "b", "c", "d", "e", "f", "g", "h", "i", "j", "k", "l", "m",
          "n", "o", "p", "q", "r", "s", "t", "u", "v", "w", "x", "y", "z"}

AlNum == Digits \cup Upper \cup Lower

IsDigit(c) == c \in Digits

IsUpper(c) == c \in Upper

IsLower(c) == c \in Lower

AllIn(s, cls) == \A i \in 1..Len(s) : s[i] \in cls

\* strings.ToUpper / strings.ToLower on one character
UpperOf(c) ==
    IF c \in Lower
    THEN CHOOSE u \in Upper :
           \E k \in 1..26 :
             /\ <<"a","b","c","d","e","f","g","h","i","j","k","l","m",
                  "n","o","p","q","r","s","t","u","v","w","x","y","z">>[k] = c
             /\ <<"A","B","C","D","E","F","G","H","I","J","K","L","M",
                  "N","O","P","Q","R","S","T","U","V","W","X","Y","Z">>[k] = u
    ELSE c

LowerOf(c) ==
    IF c \in Upper
    THEN CHOOSE l \in Lower : UpperOf(l) = c
    ELSE c

ToUpper(s) == [i \in 1..Len(s) |-> UpperOf(s[i])]

ToLower(s) == [i \in 1..Len(s) |-> LowerOf(s[i])]

\* the length of the longest run of characters of cls that starts at offset i
RECURSIVE RunLen(_, _, _)
RunLen(s, i, cls) ==
    IF i < Len(s) /\ At(s, i) \in cls THEN 1 + RunLen(s, i + 1, cls) ELSE 0

\* ------------------------------------------------------------------ numbers

DigitSeq == <<"0", "1", "2", "3", "4", "5", "6", "7", "8", "9">>

DigitVal(c) == (CHOOSE k \in 1..10 : DigitSeq[k] = c) - 1

\* the value of a non-empty digit string
RECURSIVE NatOf(_)
NatOf(s) ==
    IF s = <<>> THEN 0
    ELSE 10 * NatOf(SubSeq(s, 1, Len(s) - 1)) + DigitVal(s[Len(s)])

\* strconv.Itoa of a natural number
RECURSIVE NatStr(_)
NatStr(n) ==
    IF n < 10 THEN <<DigitSeq[n + 1]>>
    ELSE NatStr(n \div 10) \o <<DigitSeq[(n % 10) + 1]>>

\* strconv.Itoa / fmt "%d"
Itoa(n) == IF n < 0 THEN <<"-">> \o NatStr(0 - n) ELSE NatStr(n)

\* strconv.Atoi: an optional sign and decimal digits only.  The digit
\* strings of the bounded inputs are far below the 64-bit range.
Atoi(s) ==
    LET signed == s # <<>> /\ s[1] \in {"+", "-"}
        body   == IF signed THEN Tail(s) ELSE s
    IN  IF body # <<>> /\ AllIn(body, Digits)
        THEN [ok |-> TRUE,
              v  |-> IF signed /\ s[1] = "-" THEN 0 - NatOf(body) ELSE NatOf(body)]
        ELSE [ok |-> FALSE, v |-> 0]

\* A float64 is kept as the exact decimal it was read from: sign, integer
\* part and fraction digits without trailing zeros (zero carries no sign:
\* Go compares -0 and 0 equal and the code never formats a zero).
RECURSIVE StripZeros(_)
StripZeros(d) ==
    IF d # <<>> /\ d[Len(d)] = "0" THEN StripZeros(SubSeq(d, 1, Len(d) - 1)) ELSE d

MkFloat(neg, ip, fp) ==
    LET f == StripZeros(fp)
    IN  [neg |-> neg /\ ~(ip = 0 /\ f = <<>>), ip |-> ip, fp |-> f]

FloatZero == MkFloat(FALSE, 0, <<>>)

FloatNeg(v) == MkFloat(~v.neg, v.ip, v.fp)

FloatIsZero(v) == v.ip = 0 /\ v.fp = <<>>

FloatGtZero(v) == ~v.neg /\ ~FloatIsZero(v)

FloatLtZero(v) == v.neg

\* strconv.ParseFloat(s, 64) on the decimal spellings: [+-] digits [. digits],
\* with at least one digit.  The exponent, hexadecimal, "inf" and "nan"
\* spellings need the letters e, p, x, i, n, f or an underscore.
ParseFloat(s) ==
    LET signed == s # <<>> /\ s[1] \in {"+", "-"}
        body   == IF signed THEN Tail(s) ELSE s
        n1     == RunLen(body, 0, Digits)
        dot    == n1 < Len(body) /\ At(body, n1) = "."
        n2     == IF dot THEN RunLen(body, n1 + 1, Digits) ELSE 0
        used   == n1 + (IF dot THEN 1 + n2 ELSE 0)
    IN  IF used = Len(body) /\ n1 + n2 > 0
        THEN [ok |-> TRUE,
              v  |-> MkFloat(signed /\ s[1] = "-",
                             NatOf(Slice(body, 0, n1)),
                             IF dot THEN Slice(body, n1 + 1, n1 + 1 + n2) ELSE <<>>)]
        ELSE [ok |-> FALSE, v |-> FloatZero]

\* fmt.Sprintf("%g", v) for 1e-4 <= |v| < 1e6 and at most 17 digits (the
\* shortest decimal that reads back as v; no exponent in that range)
FormatG(v) ==
    (IF v.neg THEN <<"-">> ELSE <<>>) \o NatStr(v.ip)
        \o (IF v.fp = <<>> THEN <<>> ELSE <<".">> \o v.fp)

\* fmt.Sprintf("%.2f", v) for a value of at most two fraction digits, and
\* rounded on the third digit otherwise
Format2f(v) ==
    LET pad  == v.fp \o <<"0", "0">>
        two  == NatOf(SubSeq(pad, 1, 2))
        up   == Len(v.fp) > 2 /\ DigitVal(v.fp[3]) >= 5
        n    == v.ip * 100 + two + (IF up THEN 1 ELSE 0)
        frac == n % 100
    IN  (IF v.neg THEN <<"-">> ELSE <<>>) \o NatStr(n \div 100) \o <<".">>
            \o <<DigitSeq[(frac \div 10) + 1], DigitSeq[(frac % 10) + 1]>>

\* ------------------------------------------------------------------ patterns

ScoreChars == Digits \cup {"."}

\* the offset after the run of score characters that starts after offset i
scoreEnd(s, i) == i + 1 + RunLen(s, i + 1, ScoreChars)

\* \(([\d.]+)\) matches at offset i of s
scoreAt(s, i) ==
    /\ At(s, i) = "(" /\ scoreEnd(s, i) > i + 1
    /\ scoreEnd(s, i) < Len(s) /\ At(s, scoreEnd(s, i)) = ")"

\* the match of \(([\d.]+)\) at offset first
scoreMatchAt(s, first) ==
    [found |-> TRUE, at |-> first, len |-> scoreEnd(s, first) + 1 - first,
     group |-> Slice(s, first + 1, scoreEnd(s, first))]

\* the leftmost match of \(([\d.]+)\) in s: [found, at, len, group]
ScoreMatch(s) ==
    IF \E i \in 0..(Len(s) - 1) : scoreAt(s, i)
    THEN scoreMatchAt(s, Least({i \in 0..(Len(s) - 1) : scoreAt(s, i)}))
    ELSE [found |-> FALSE, at |-> 0, len |-> 0, group |-> <<>>]

RECURSIVE RemoveScores(_)

\* s with its first score m and those after it cut out
scoresCut(s, m) ==
    IF ~m.found THEN s
    ELSE Slice(s, 0, m.at) \o RemoveScores(From(s, m.at + m.len))

\* re.ReplaceAllString(s, "") for \(([\d.]+)\)
RemoveScores(s) == scoresCut(s, ScoreMatch(s))

\* the match of :z([+-]\d+)$ in s: [found, at, group]
ChargeSuffix(s) ==
    LET k  == Len(s) - (CHOOSE i \in 0..Len(s) :
                          /\ AllIn(From(s, i), Digits)
                          /\ \A j \in 0..(i - 1) : ~AllIn(From(s, j), Digits))
        at == Len(s) - k - 3
    IN  IF k >= 1 /\ at >= 0 /\ At(s, at) = ":" /\ At(s, at + 1) = "z"
           /\ At(s, at + 2) \in {"+", "-"}
        THEN [found |-> TRUE, at |-> at, group |-> From(s, at + 2)]
        ELSE [found |-> FALSE, at |-> 0, group |-> <<>>]

\* massShiftPattern ^[+-]\d+(\.\d+)?$
MassShiftMatch(s) ==
    /\ s # <<>> /\ s[1] \in {"+", "-"}
    /\ LET n1  == RunLen(s, 1, Digits)
           dot == 1 + n1 < Len(s) /\ At(s, 1 + n1) = "."
           n2  == IF dot THEN RunLen(s, 2 + n1, Digits) ELSE 0
       IN  /\ n1 >= 1
           /\ IF dot THEN n2 >= 1 /\ 2 + n1 + n2 = Len(s) ELSE 1 + n1 = Len(s)

\* ^XL[A-Za-z0-9]+$
IsXLId(t) == HasPrefix(t, <<"X", "L">>) /\ Len(t) >= 3 /\ AllIn(t, AlNum)

\* crosslinkPattern ^([^#]+)#(XL[A-Za-z0-9]+)$: [found, id]
CrosslinkMatch(s) ==
    LET i == Index(s, <<"#">>)
    IN  IF i >= 1 /\ IsXLId(From(s, i + 1))
        THEN [found |-> TRUE, id |-> From(s, i + 1)]
        ELSE [found |-> FALSE, id |-> <<>>]

\* crosslinkRefPattern ^#(XL[A-Za-z0-9]+)$
CrosslinkRefMatch(s) == HasPrefix(s, <<"#">>) /\ IsXLId(Tail(s))

\* branchPattern ^([^#]+)#BRANCH$
BranchMatch(s) == Index(s, <<"#">>) >= 1 /\ From(s, Index(s, <<"#">>)) = <<"#", "B", "R", "A", "N", "C", "H">>

\* branchRefPattern ^#BRANCH$
BranchRefMatch(s) == s = <<"#", "B", "R", "A", "N", "C", "H">>

\* ^[A-Za-z0-9]+(?:\(([0-9.]+)\))?$ : [found, group, score]
AmbiguityTail(t) ==
    LET n    == RunLen(t, 0, AlNum)
        rest == From(t, n)
    IN  IF n >= 1 /\ rest = <<>>
        THEN [found |-> TRUE, group |-> Slice(t, 0, n), score |-> <<>>]
        ELSE IF n >= 1 /\ Len(rest) >= 3 /\ rest[1] = "(" /\ rest[Len(rest)] = ")"
                /\ AllIn(SubSeq(rest, 2, Len(rest) - 1), ScoreChars)
        THEN [found |-> TRUE, group |-> Slice(t, 0, n),
              score |-> SubSeq(rest, 2, Len(rest) - 1)]
        ELSE [found |-> FALSE, group |-> <<>>, score |-> <<>>]

\* ambiguityPattern (.+?)#([A-Za-z0-9]+)(?:\(([0-9.]+)\))?$ and, with
\* minName = 0, ambiguityRefPattern #([A-Za-z0-9]+)(?:\(([0-9.]+)\))?$ :
\* the leftmost "#" with at least minName characters before it whose tail
\* matches: [found, name, group, score]
AmbiguityMatch(s, minName) ==
    LET hits  == {k \in minName..(Len(s) - 1) :
                    At(s, k) = "#" /\ AmbiguityTail(From(s, k + 1)).found}
        first == CHOOSE k \in hits : \A j \in hits : k <= j
        t     == AmbiguityTail(From(s, first + 1))
    IN  IF hits = {}
        THEN [found |-> FALSE, name |-> <<>>, group |-> <<>>, score |-> <<>>]
        ELSE [found |-> TRUE, name |-> Slice(s, 0, first),
              group |-> t.group, score |-> t.score]

\* ---------------------------------------------------------------- validators

\* the optional count after an element or isotope token: -?\d* consumed
FormulaCountEnd(s, i) ==
    IF i < Len(s) /\ At(s, i) = "-" THEN i + 1 + RunLen(s, i + 1, Digits)
    ELSE i + RunLen(s, i, Digits)

\* regexp.MatchString(`\d+[A-Z][a-z]?(-?\d+)?`, part): unanchored
IsotopeMatch(part) ==
    \E j \in 0..(Len(part) - 2) : IsDigit(At(part, j)) /\ IsUpper(At(part, j + 1))

\* where the scan of a formula goes on after the token at offset i, or -1
\* where no token starts: an isotope block closed e characters on, or an
\* element symbol
formulaNext(s, i, e) ==
    IF At(s, i) = "["
    THEN IF e = -1 \/ ~IsotopeMatch(Slice(s, i + 1, e + i)) THEN -1
         ELSE FormulaCountEnd(s, e + i + 1)
    ELSE IF IsUpper(At(s, i))
    THEN FormulaCountEnd(s, IF i + 1 < Len(s) /\ IsLower(At(s, i + 1))
                            THEN i + 2 ELSE i + 1)
    ELSE -1

RECURSIVE FormulaScan(_, _)

\* the scan of a formula gone on at offset next
formulaFrom(s, next) == IF next = -1 THEN FALSE ELSE FormulaScan(s, next)

FormulaScan(s, i) ==
    IF i >= Len(s) THEN TRUE
    ELSE formulaFrom(s, formulaNext(s, i, Index(From(s, i), <<"]">>)))

\* validateFormula on the formula and the formula without its spaces
formulaValid(formula, cleaned) ==
    IF cleaned = <<>> THEN FALSE
    ELSE IF Count(formula, "[") # Count(formula, "]") THEN FALSE
    ELSE FormulaScan(cleaned, 0)

validateFormula(formula) == formulaValid(formula, RemoveSpaces(formula))

\* monos, sorted longest first
Monos == <<<<"H", "e", "x", "N", "A", "c", "S">>, <<"H", "e", "x", "N", "A", "c">>, <<"N", "e", "u", "A", "c">>, <<"N", "e", "u", "G", "c">>, <<"H", "e", "x", "S">>, <<"H", "e", "x", "P">>,
           <<"d", "H", "e", "x">>, <<"H", "e", "x">>, <<"P", "e", "n">>, <<"F", "u", "c">>>>

NonZeroDigits == Digits \ {"0"}

\* the length matched at offset i by ((\([1-9]\d*\))|[1-9]\d*)? (0: no count)
GlycanCountLen(s, i) ==
    IF /\ i + 1 < Len(s) /\ At(s, i) = "(" /\ At(s, i + 1) \in NonZeroDigits
       /\ i + 1 + RunLen(s, i + 1, Digits) < Len(s)
       /\ At(s, i + 1 + RunLen(s, i + 1, Digits)) = ")"
    THEN RunLen(s, i + 1, Digits) + 2
    ELSE IF i < Len(s) /\ At(s, i) \in NonZeroDigits
    THEN RunLen(s, i, Digits)
    ELSE 0

\* customMonoPattern ^\{([A-Za-z0-9]+)(:z[+-]\d+)?\} at offset i:
\* [found, formula, len] (len without the count)
CustomMonoMatch(s, i) ==
    LET n   == RunLen(s, i + 1, AlNum)
        p   == i + 1 + n
        chg == /\ p + 3 < Len(s) /\ At(s, p) = ":" /\ At(s, p + 1) = "z"
               /\ At(s, p + 2) \in {"+", "-"} /\ RunLen(s, p + 3, Digits) >= 1
        q   == IF chg THEN p + 3 + RunLen(s, p + 3, Digits) ELSE p
    IN  IF i < Len(s) /\ At(s, i) = "{" /\ n >= 1 /\ q < Len(s) /\ At(s, q) = "}"
        THEN [found |-> TRUE, formula |-> Slice(s, i + 1, p), len |-> q + 1 - i]
        ELSE [found |-> FALSE, formula |-> <<>>, len |-> 0]

\* the first name of Monos that occurs at offset i (0: none)
MonoLen(s, i) ==
    IF \E k \in 1..Len(Monos) : MatchAt(s, i, Monos[k])
    THEN Len(Monos[Least({k \in 1..Len(Monos) : MatchAt(s, i, Monos[k])})])
    ELSE 0

\* the length of the monosaccharide at offset i, a custom one c with a
\* valid formula or one of Monos of length m (0: none)
glycanToken(c, m) ==
    IF c.found THEN IF validateFormula(c.formula) THEN c.len ELSE 0 ELSE m

RECURSIVE GlycanScan(_, _)

\* glycanFrom that lets any monosaccharide go without a count
glycanFromAnyCount(s, i, len, cnt) ==
    IF len = 0 THEN FALSE
    ELSE GlycanScan(s, i + len + cnt)

\* the scan of a glycan gone on after the monosaccharide of length len at
\* offset i and its count of length cnt
glycanFrom(s, i, len, cnt) ==
    IF len = 0 THEN FALSE
    ELSE IF cnt = 0 /\ i + len # Len(s) THEN FALSE
    ELSE GlycanScan(s, i + len + cnt)

\* the scan of a glycan gone on after the monosaccharide of length len at
\* offset i
glycanAfter(s, i, len) == glycanFrom(s, i, len, GlycanCountLen(s, i + len))

GlycanScan(s, i) ==
    IF i >= Len(s) THEN i = Len(s)
    ELSE glycanAfter(s, i, glycanToken(CustomMonoMatch(s, i), MonoLen(s, i)))

validateGlycan(glycan) == GlycanScan(RemoveSpaces(glycan), 0)

\* ------------------------------------------------------------ pipe values

\* the group g with its score, m being the score notation found in it and
\* f its number: [group, score, ok]
scoredGroup(g, m, f) ==
    IF ContainsChar(g, "(") /\ ContainsChar(g, ")") /\ m.found /\ f.ok
    THEN [group |-> RemoveScores(g), score |-> Some(f.v), ok |-> TRUE]
    ELSE [group |-> g, score |-> None, ok |-> FALSE]

\* the group g with the score notation m found in it
scoreRead(g, m) == scoredGroup(g, m, ParseFloat(m.group))

ScoredGroup(g) == scoreRead(g, ScoreMatch(g))

\* a string read as a formula without charge notation
NoCharge(v) == [found |-> FALSE, value |-> v, charge |-> None, chargeValue |-> None]

\* the charge notation m found at the end of the formula v
chargeOf(v, m, a) ==
    IF m.found
    THEN [found |-> TRUE, value |-> Slice(v, 0, m.at),
          charge |-> Some(<<"z">> \o m.group),
          chargeValue |-> IF a.ok THEN Some(a.v) ELSE None]
    ELSE NoCharge(v)

\* the formula v with the match m of the charge notation at its end
chargeRead(v, m) == chargeOf(v, m, Atoi(m.group))

\* the charge notation of a formula: [found, value, charge, chargeValue]
FormulaCharge(v) == chargeRead(v, ChargeSuffix(v))

\* extractProperties, the crosslink and ambiguity cases: parts is the value
\* cut at its first "#" and sg the ambiguity group read from its tag
extractTag(pv, parts, sg) ==
    IF pv.valueType = "crosslink" /\ ContainsChar(pv.value, "#")
    THEN IF parts[2] = <<"B", "R", "A", "N", "C", "H">>
         THEN [pv EXCEPT !.isBranch = TRUE]
         ELSE [pv EXCEPT !.crosslinkID = Some(parts[2])]
    ELSE IF pv.valueType = "ambiguity" /\ ContainsChar(pv.value, "#")
    THEN [pv EXCEPT !.ambiguityGroup = Some(parts[2]),
                    !.localizationScore = sg.score]
    ELSE pv

\* extractProperties, the formula case: c is the charge notation of the value
extractCharge(pv, c) ==
    IF pv.valueType = "formula" /\ c.found
    THEN [pv EXCEPT !.charge = c.charge, !.chargeValue = c.chargeValue,
                    !.value = c.value]
    ELSE pv

\* the second component of a list, or nothing
second(parts) == IF Len(parts) >= 2 THEN parts[2] ELSE <<>>

\* extractProperties of pv, parts being its value cut at the first "#"
extractCut(pv, parts) ==
    extractCharge(extractTag(pv, parts, ScoredGroup(second(parts))),
                  FormulaCharge(pv.value))

extractProperties(pv) == extractCut(pv, SplitN2(pv.value, <<"#">>))

NewPipeValue(value, valueType) ==
    extractProperties(
        [value |-> value, valueType |-> valueType, crosslinkID |-> None,
         isBranch |-> FALSE, isBranchRef |-> FALSE, isCrosslinkRef |-> FALSE,
         ambiguityGroup |-> None, isAmbiguityRef |-> FALSE,
         localizationScore |-> None, source |-> None, mass |-> None,
         observedMass |-> None, isValidGlycan |-> FALSE,
         isValidFormula |-> FALSE, charge |-> None, chargeValue |-> None])

\* pv with the ambiguity group and score sg
grouped(pv, sg) ==
    [pv EXCEPT !.ambiguityGroup = Some(sg.group),
               !.localizationScore = IF sg.ok THEN sg.score ELSE @]

\* pv with its ambiguity group set to g, the score read and cut out of it
WithGroup(pv, g) == grouped(pv, ScoredGroup(g))

knownSources ==
    {<<"U", "n", "i", "m", "o", "d">>, <<"U">>, <<"P", "S", "I", "-", "M", "O", "D">>, <<"M">>, <<"R", "E", "S", "I", "D">>, <<"R">>, <<"X", "L", "-", "M", "O", "D">>, <<"X">>,
     <<"X", "L", "M", "O", "D">>, <<"G", "N", "O">>, <<"G">>, <<"M", "O", "D">>, <<"O", "b", "s">>, <<"F", "o", "r", "m", "u", "l", "a">>, <<"F", "O", "R", "M", "U", "L", "A">>,
     <<"G", "L", "Y", "C", "A", "N">>, <<"G", "l", "y", "c", "a", "n">>, <<"I", "n", "f", "o">>, <<"O", "B", "S">>, <<"I", "N", "F", "O">>, <<"X", "L">>}

isInKnownSources(source) == source \in knownSources

containsDigit(s) == \E i \in 1..Len(s) : IsDigit(s[i])

\* the fields of a reference set on the pipe value pv made of "#...", sg
\* being the ambiguity group read from what follows the "#"
refFields(pv, value, isAmb, sg) ==
    IF isAmb
    THEN grouped([pv EXCEPT !.isAmbiguityRef = TRUE], sg)
    ELSE [pv EXCEPT !.isCrosslinkRef = TRUE, !.crosslinkID = Some(Tail(value))]

\* the fields of the reference "#BRANCH" set on its pipe value pv
branchRefFields(pv) == [pv EXCEPT !.isBranchRef = TRUE, !.isBranch = TRUE]

\* the kind of the pipe value of "base#special" in the primary position
specialKind(specialPart) ==
    IF specialPart = <<"B", "R", "A", "N", "C", "H">> THEN "branch"
    ELSE IF ContainsChar(specialPart, "(") /\ ContainsChar(specialPart, ")")
    THEN "ambiguity" ELSE "crosslink"

\* the fields of "base#special" set on the pipe value pv, sg being the
\* ambiguity group read from the special part
specialFields(pv, specialPart, sg) ==
    IF specialPart = <<"B", "R", "A", "N", "C", "H">> THEN [pv EXCEPT !.isBranch = TRUE]
    ELSE IF ContainsChar(specialPart, "(") /\ ContainsChar(specialPart, ")")
    THEN grouped(pv, sg)
    ELSE [pv EXCEPT !.crosslinkID = Some(specialPart)]

\* ------------------------------------------------------ modification values
\* _processPrimaryValue and _processPipeComponent make a pipe value in each
\* of their branches.  The operators below take as arguments what a branch
\* calls for: main is NewPipeValue applied to the arguments of the branch
\* taken (syn the synonym made before it), sg the ambiguity group read from
\* the tag, vg and vf what validateGlycan and validateFormula say.

WithSource(pv, source) == [pv EXCEPT !.source = Some(source)]

\* the charge notation cut off the rest of "source:rest": that of a formula
sourceCharge(source, rest) ==
    IF ToUpper(source) = <<"F", "O", "R", "M", "U", "L", "A">> THEN FormulaCharge(rest) ELSE NoCharge(rest)

\* the tag of a value: what follows the "#" it starts with, or the second
\* of the parts vp it is cut into at its first "#"
tagOf(value, vp) == IF HasPrefix(value, <<"#">>) THEN Tail(value) ELSE second(vp)

\* the synonym plain retyped by its source: a formula with the charge
\* notation c, or a glycan
sourcedPlain(plain, source, c, vg, vf) ==
    IF ToUpper(source) = <<"F", "O", "R", "M", "U", "L", "A">>
    THEN [plain EXCEPT !.valueType = "formula", !.isValidFormula = vf,
                       !.charge = c.charge, !.chargeValue = c.chargeValue]
    ELSE IF ToUpper(source) = <<"G", "L", "Y", "C", "A", "N">>
    THEN [plain EXCEPT !.valueType = "glycan", !.isValidGlycan = vg]
    ELSE plain

\* the pipe values of "source:value": vp is the value cut at its first "#"
sourcedPipes(source, c, vp, syn, main, sg, vg, vf) ==
    IF ContainsChar(c.value, "#")
    THEN <<WithSource(syn, source),
           WithSource(specialFields(main, vp[2], sg), source)>>
    ELSE <<sourcedPlain(WithSource(syn, source), source, c, vg, vf)>>

\* processPrimaryValue for "x:y" with x no known source: a mass when x is
\* "mass" in any case and y a float f, an info tag otherwise
primaryUnsourced(mv, value, parts, f, main) ==
    IF ToUpper(parts[1]) = <<"M", "A", "S", "S">>
    THEN IF f.ok
         THEN [mv EXCEPT !.primaryValue = parts[2], !.mass = Some(f.v),
                  !.pipeValues = Append(@, [main EXCEPT !.mass = Some(f.v)])]
         ELSE [mv EXCEPT !.primaryValue = parts[2],
                  !.pipeValues = Append(@, main)]
    ELSE [mv EXCEPT !.primaryValue = value, !.pipeValues = Append(@, main)]

\* processPrimaryValue for a value with ":", parts being the value cut there
primarySourced(mv, value, parts, c, f, vp, syn, main, sg, vg, vf) ==
    IF parts[1] \in knownSources
    THEN IF parts[2] = <<>>
         THEN [mv EXCEPT !.source = Some(parts[1]), !.primaryValue = <<>>]
         ELSE [mv EXCEPT !.source = Some(parts[1]), !.primaryValue = c.value,
                  !.pipeValues = @ \o sourcedPipes(parts[1], c, vp, syn, main,
                                                   sg, vg, vf)]
    ELSE primaryUnsourced(mv, value, parts, f, main)

\* processPrimaryValue for "base#special", vp being the value cut at "#"
primaryTagged(mv, vp, syn, main, sg) ==
    [mv EXCEPT !.primaryValue = vp[1],
        !.pipeValues = @ \o (IF vp[1] # <<>> THEN <<syn>> ELSE <<>>)
                         \o <<specialFields(main, vp[2], sg)>>]

\* the glycan or formula pipe value that follows the synonym of a plain
\* value, if it is either
plainExtra(main, isGlycan, isFormula) ==
    IF isGlycan THEN <<[main EXCEPT !.isValidGlycan = TRUE]>>
    ELSE IF isFormula THEN <<[main EXCEPT !.isValidFormula = TRUE]>>
    ELSE <<>>

\* the float g negated when the value it was read from starts with "-"
signedMass(value, g) == IF HasPrefix(value, <<"-">>) THEN FloatNeg(g.v) ELSE g.v

\* processPrimaryValue for a value without ":" and "#": a mass shift, g
\* being the value read as a float without a leading "+", or a synonym
primaryPlain(mv, value, g, syn, main, vg, vf) ==
    IF (HasPrefix(value, <<"+">>) \/ HasPrefix(value, <<"-">>)) /\ g.ok
    THEN [mv EXCEPT !.primaryValue = value, !.mass = Some(signedMass(value, g)),
             !.pipeValues = Append(@,
                 [main EXCEPT !.mass = Some(signedMass(value, g))])]
    ELSE [mv EXCEPT !.primaryValue = value,
             !.pipeValues = @ \o <<syn>> \o plainExtra(main, vg, vf)]

\* the value read as a float, a leading "+" cut off
unsignedFloat(value) ==
    ParseFloat(IF HasPrefix(value, <<"+">>) THEN Tail(value) ELSE value)

\* the branches of processPrimaryValue
primaryBranches(mv, value, parts, c, f, g, vp, syn, main, sg, vg, vf) ==
    IF value = <<"#", "B", "R", "A", "N", "C", "H">>
    THEN [mv EXCEPT !.primaryValue = <<>>,
                    !.pipeValues = Append(@, branchRefFields(main))]
    ELSE IF HasPrefix(value, <<"#">>)
    THEN [mv EXCEPT !.primaryValue = <<>>,
                    !.pipeValues = Append(@, refFields(main, value,
                        ContainsChar(Tail(value), "(") /\ ContainsChar(Tail(value), ")"),
                        sg))]
    ELSE IF ContainsChar(value, ":")
    THEN primarySourced(mv, value, parts, c, f, vp, syn, main, sg, vg, vf)
    ELSE IF ContainsChar(value, "#")
    THEN primaryTagged(mv, vp, syn, main, sg)
    ELSE primaryPlain(mv, value, g, syn, main, vg, vf)

\* the first argument of NewPipeValue on the branch processPrimaryValue
\* takes for value (the synonym before it is made of vp[1])
primaryText(value, parts, c, f) ==
    IF HasPrefix(value, <<"#">>) \/ ~ContainsChar(value, ":") THEN value
    ELSE IF parts[1] \in knownSources THEN c.value
    ELSE IF ToUpper(parts[1]) = <<"M", "A", "S", "S">> /\ f.ok THEN parts[2]
    ELSE value

\* the second argument of NewPipeValue on that branch
primaryKind(value, parts, f, g, vp, vg) ==
    IF value = <<"#", "B", "R", "A", "N", "C", "H">> THEN "branch"
    ELSE IF HasPrefix(value, <<"#">>)
    THEN IF ContainsChar(Tail(value), "(") /\ ContainsChar(Tail(value), ")")
         THEN "ambiguity" ELSE "crosslink"
    ELSE IF ContainsChar(value, ":")
    THEN IF parts[1] \in knownSources THEN specialKind(second(vp))
         ELSE IF ToUpper(parts[1]) = <<"M", "A", "S", "S">> /\ f.ok THEN "mass"
         ELSE "info_tag"
    ELSE IF ContainsChar(value, "#") THEN specialKind(vp[2])
    ELSE IF (HasPrefix(value, <<"+">>) \/ HasPrefix(value, <<"-">>)) /\ g.ok THEN "mass"
    ELSE IF vg THEN "glycan" ELSE "formula"

\* processPrimaryValue, vp being what is looked at for a tag (the value,
\* after a known source what follows it without its charge) cut at "#"
primaryCut(mv, value, parts, c, f, g, vp, vg) ==
    primaryBranches(mv, value, parts, c, f, g, vp,
        NewPipeValue(vp[1], "synonym"),
        NewPipeValue(primaryText(value, parts, c, f),
                     primaryKind(value, parts, f, g, vp, vg)),
        ScoredGroup(tagOf(value, vp)), vg, validateFormula(vp[1]))

\* processPrimaryValue, c being the charge notation of what follows the
\* source, f that read as a float and g the value read as a float
primaryRead(mv, value, parts, c, f, g) ==
    primaryCut(mv, value, parts, c, f, g,
        SplitN2(IF ContainsChar(value, ":") THEN c.value ELSE value, <<"#">>),
        validateGlycan(IF ContainsChar(value, ":") THEN c.value ELSE value))

\* processPrimaryValue, parts being the value cut at its first ":"
primaryParts(mv, value, parts) ==
    primaryRead(mv, value, parts, sourceCharge(parts[1], second(parts)),
                ParseFloat(second(parts)), unsignedFloat(value))

processPrimaryValue(mv, value) == primaryParts(mv, value, SplitN2(value, <<":">>))

\* the kind of the pipe value of "source:value#tag"
sharpKind(mv, source, tag) ==
    IF source \in {<<"X", "L">>, <<"X", "L", "M", "O", "D">>, <<"X", "L", "-", "M", "O", "D">>, <<"X">>} THEN "crosslink"
    ELSE IF tag = <<"B", "R", "A", "N", "C", "H">> THEN "branch"
    ELSE IF ToUpper(source) = <<"G", "L", "Y", "C", "A", "N">> THEN "glycan"
    ELSE IF ToUpper(source) = <<"G", "N", "O">> \/ ToUpper(Val(mv.source)) = <<"G">> THEN "glycan"
    ELSE IF ToUpper(source) = <<"F", "O", "R", "M", "U", "L", "A">> THEN "formula"
    ELSE "ambiguity"

\* the fields set on the pipe value pv of "source:value#tag"
sharpFields(pv, source, tag, c, sg, vg, vf) ==
    IF source \in {<<"X", "L">>, <<"X", "L", "M", "O", "D">>, <<"X", "L", "-", "M", "O", "D">>, <<"X">>}
    THEN [pv EXCEPT !.crosslinkID = Some(tag)]
    ELSE IF tag = <<"B", "R", "A", "N", "C", "H">> THEN [pv EXCEPT !.isBranch = TRUE]
    ELSE IF ToUpper(source) = <<"G", "L", "Y", "C", "A", "N">> THEN [pv EXCEPT !.isValidGlycan = vg]
    ELSE IF pv.valueType = "glycan" THEN [pv EXCEPT !.isValidGlycan = TRUE]
    ELSE IF pv.valueType = "formula"
    THEN [pv EXCEPT !.isValidFormula = vf,
                    !.charge = c.charge, !.chargeValue = c.chargeValue]
    ELSE grouped(pv, sg)

\* the kind of the pipe value of "source:value" without "#"
plainKind(source) ==
    IF ToUpper(source) = <<"I", "N", "F", "O">> THEN "info_tag"
    ELSE IF ToUpper(source) = <<"O", "B", "S">> THEN "observed_mass"
    ELSE IF ToUpper(source) \in {<<"G", "L", "Y", "C", "A", "N">>, <<"G", "N", "O">>, <<"G">>} THEN "glycan"
    ELSE IF ToUpper(source) = <<"F", "O", "R", "M", "U", "L", "A">> THEN "formula"
    ELSE "synonym"

\* the fields set on the pipe value pv of "source:value" without "#", k
\* being the value read as a float
plainFields(pv, source, c, k, vg, vf) ==
    IF pv.valueType = "observed_mass"
    THEN [pv EXCEPT !.observedMass = IF k.ok THEN Some(k.v) ELSE None]
    ELSE IF ToUpper(source) = <<"G", "L", "Y", "C", "A", "N">> THEN [pv EXCEPT !.isValidGlycan = vg]
    ELSE IF pv.valueType = "glycan" THEN [pv EXCEPT !.isValidGlycan = TRUE]
    ELSE IF pv.valueType = "formula"
    THEN [pv EXCEPT !.isValidFormula = vf,
                    !.charge = c.charge, !.chargeValue = c.chargeValue]
    ELSE pv

\* the code reads *mv.source in the "#" case where the source is none of
\* the crosslink sources, GLYCAN and GNO and the tag is not BRANCH
derefsSource(source, tag) ==
    /\ source \notin {<<"X", "L">>, <<"X", "L", "M", "O", "D">>, <<"X", "L", "-", "M", "O", "D">>, <<"X">>}
    /\ tag # <<"B", "R", "A", "N", "C", "H">>
    /\ ToUpper(source) # <<"G", "L", "Y", "C", "A", "N">> /\ ToUpper(source) # <<"G", "N", "O">>

\* _processPipeComponent for "source:rest" with a known source, c being the
\* charge notation of rest and vp its value cut at the first "#".  A nil
\* mv.source where the code reads through it ends the program (panics).
pipeWithSource(mv, source, c, vp, k, main, sg, vg, vf) ==
    IF ContainsChar(c.value, "#")
    THEN IF derefsSource(source, vp[2]) /\ mv.source = None
         THEN [mv EXCEPT !.panics = TRUE]
         ELSE [mv EXCEPT !.pipeValues = Append(@,
                  sharpFields(WithSource(main, source), source, vp[2], c,
                              sg, vg, vf))]
    ELSE [mv EXCEPT !.pipeValues = Append(@,
             WithSource(plainFields(main, source, c, k, vg, vf), source))]

\* the tag of "MASS:value#tag" set on the pipe value cut
massTag(cut, tag, sg) ==
    IF tag = <<"B", "R", "A", "N", "C", "H">> THEN [cut EXCEPT !.isBranch = TRUE]
    ELSE IF HasPrefix(tag, <<"X", "L">>) THEN [cut EXCEPT !.crosslinkID = Some(tag)]
    ELSE grouped(cut, sg)

\* the pipe value base of "MASS:rest" with its value cut at "#" and its tag
massFields(base, rest, vp, sg) ==
    IF ~ContainsChar(rest, "#") THEN base
    ELSE massTag([base EXCEPT !.value = vp[1]], vp[2], sg)

\* the fields of "value#tag" set on its pipe value pv, k being the value
\* read as a float
pipeSpecialFields(pv, value, tag, k, sg) ==
    IF (HasPrefix(value, <<"+">>) \/ HasPrefix(value, <<"-">>)) /\ containsDigit(value)
       /\ k.ok
    THEN [massTag(pv, tag, sg) EXCEPT !.mass = Some(k.v)]
    ELSE massTag(pv, tag, sg)

\* _processPipeComponent for "x:y", parts being the component cut at ":" and
\* f the float read from y
pipeSourced(mv, parts, c, f, vp, k, main, sg, vg, vf) ==
    IF isInKnownSources(parts[1])
    THEN pipeWithSource(mv, parts[1], c, vp, k, main, sg, vg, vf)
    ELSE IF ToUpper(parts[1]) = <<"M", "A", "S", "S">> /\ f.ok
    THEN [mv EXCEPT !.pipeValues = Append(@,
             massFields([main EXCEPT !.mass = Some(f.v)], parts[2], vp, sg))]
    ELSE [mv EXCEPT !.pipeValues = Append(@, main)]

\* _processPipeComponent for a component without ":" and "#", g being the
\* component read as a float
pipePlain(mv, component, g, main) ==
    IF (HasPrefix(component, <<"+">>) \/ HasPrefix(component, <<"-">>))
       /\ containsDigit(component) /\ g.ok
    THEN [mv EXCEPT !.pipeValues = Append(@, [main EXCEPT !.mass = Some(g.v)])]
    ELSE [mv EXCEPT !.pipeValues = Append(@, main)]

\* the branches of _processPipeComponent
pipeBranches(mv, component, parts, c, f, g, vp, k, main, sg, vg, vf) ==
    IF component = <<"#", "B", "R", "A", "N", "C", "H">>
    THEN [mv EXCEPT !.pipeValues = Append(@, branchRefFields(main))]
    ELSE IF HasPrefix(component, <<"#">>)
    THEN [mv EXCEPT !.pipeValues = Append(@,
             refFields(main, component, ~HasPrefix(Tail(component), <<"X", "L">>), sg))]
    ELSE IF ContainsChar(component, ":")
    THEN pipeSourced(mv, parts, c, f, vp, k, main, sg, vg, vf)
    ELSE IF ContainsChar(component, "#")
    THEN [mv EXCEPT !.pipeValues = Append(@,
             pipeSpecialFields(main, vp[1], vp[2], k, sg))]
    ELSE pipePlain(mv, component, g, main)

\* the first argument of NewPipeValue on the branch _processPipeComponent
\* takes for component
pipeText(component, parts, f, vp) ==
    IF HasPrefix(component, <<"#">>) THEN component
    ELSE IF ContainsChar(component, ":")
    THEN IF isInKnownSources(parts[1]) THEN vp[1]
         ELSE IF ToUpper(parts[1]) = <<"M", "A", "S", "S">> /\ f.ok THEN parts[2]
         ELSE component
    ELSE vp[1]

\* the second argument of NewPipeValue on that branch
pipeKind(mv, component, parts, c, f, g, vp) ==
    IF component = <<"#", "B", "R", "A", "N", "C", "H">> THEN "branch"
    ELSE IF HasPrefix(component, <<"#">>)
    THEN IF HasPrefix(Tail(component), <<"X", "L">>) THEN "crosslink" ELSE "ambiguity"
    ELSE IF ContainsChar(component, ":")
    THEN IF isInKnownSources(parts[1])
         THEN IF ContainsChar(c.value, "#") THEN sharpKind(mv, parts[1], vp[2])
              ELSE plainKind(parts[1])
         ELSE IF ToUpper(parts[1]) = <<"M", "A", "S", "S">> /\ f.ok THEN "mass"
         ELSE "synonym"
    ELSE IF ContainsChar(component, "#")
    THEN IF vp[2] = <<"B", "R", "A", "N", "C", "H">> THEN "branch"
         ELSE IF HasPrefix(vp[2], <<"X", "L">>) THEN "crosslink"
         ELSE "ambiguity"
    ELSE IF (HasPrefix(component, <<"+">>) \/ HasPrefix(component, <<"-">>))
            /\ containsDigit(component) /\ g.ok
    THEN "mass" ELSE "synonym"

\* _processPipeComponent, vp being what is looked at for a tag (the
\* component, after a source what follows it without its charge) cut at "#"
pipeCut(mv, component, parts, c, f, g, vp) ==
    pipeBranches(mv, component, parts, c, f, g, vp, ParseFloat(vp[1]),
        NewPipeValue(pipeText(component, parts, f, vp),
                     pipeKind(mv, component, parts, c, f, g, vp)),
        ScoredGroup(tagOf(component, vp)),
        validateGlycan(vp[1]), validateFormula(vp[1]))

\* _processPipeComponent, parts being the component cut at its first ":"
pipeParts(mv, component, parts, c) ==
    pipeCut(mv, component, parts, c, ParseFloat(second(parts)),
            ParseFloat(component),
            SplitN2(IF ContainsChar(component, ":") THEN c.value ELSE component,
                    <<"#">>))

\* _processPipeComponent, cut is the component cut at its first ":"
pipeColon(mv, component, parts) ==
    pipeParts(mv, component, parts, sourceCharge(parts[1], second(parts)))

processPipeComponent(mv, component) ==
    IF mv.panics THEN mv
    ELSE pipeColon(mv, component, SplitN2(component, <<":">>))

RECURSIVE ProcessPipeComponents(_, _)
ProcessPipeComponents(mv, components) ==
    IF components = <<>> THEN mv
    ELSE ProcessPipeComponents(processPipeComponent(mv, Head(components)),
                               Tail(components))

\* _parseValue: the first of the components between "|" is the primary
\* value (a value without "|" is its only component)
parseValue(mv, value) ==
    ProcessPipeComponents(processPrimaryValue(mv, Head(Split(value, <<"|">>))),
                          Tail(Split(value, <<"|">>)))

NewModificationValue(value, mass) ==
    parseValue([primaryValue |-> <<>>, source |-> None, mass |-> mass,
                pipeValues |-> <<>>, panics |-> FALSE], value)

\* ------------------------------------------------------------ modifications

validModTypes ==
    {"static", "variable", "terminal", "ambiguous", "crosslink", "branch",
     "gap", "labile", "unknown_position", "global"}

\* The arguments of NewModification that its callers vary, as a record, the
\* value object (modValue) apart; the position, regexPattern, fullName,
\* labilNumber and allFilled arguments are nil, 0 or false at every call.
ModArgs ==
    [value |-> <<>>, modType |-> "static", labile |-> FALSE, mass |-> FloatZero,
     crosslinkID |-> None, isCrosslinkRef |-> FALSE, isBranchRef |-> FALSE,
     isBranch |-> FALSE, ambiguityGroup |-> None, isAmbiguityRef |-> FALSE,
     inRange |-> FALSE, rangeStart |-> None, rangeEnd |-> None,
     localizationScore |-> None,
     positionConstraint |-> <<>>, limitPerPosition |-> None,
     colocalizeKnown |-> FALSE, colocalizeUnknown |-> FALSE, isIonType |-> FALSE]

\* the modification NewModification returns, modValue being the value
\* object passed or made
newModification(a, id, modValue) ==
    LET isRef   == a.value # <<>> /\ a.value[1] = "#" /\ a.isCrosslinkRef
        xlID    == IF isRef THEN Some(Tail(a.value)) ELSE a.crosslinkID
        modType == IF (xlID # None \/ a.isCrosslinkRef) /\ a.modType # "crosslink"
                   THEN "crosslink" ELSE a.modType
    IN  [id |-> id, value |-> a.value, mass |-> a.mass,
         crosslinkID |-> xlID, isCrosslinkRef |-> a.isCrosslinkRef,
         isBranchRef |-> a.isBranchRef, isBranch |-> a.isBranch,
         isAmbiguityRef |-> a.isAmbiguityRef, ambiguityGroup |-> a.ambiguityGroup,
         inRange |-> a.inRange, rangeStart |-> a.rangeStart, rangeEnd |-> a.rangeEnd,
         localizationScore |-> a.localizationScore, modValue |-> modValue,
         modType |-> IF a.inRange THEN "ambiguous" ELSE modType,
         labile |-> a.labile \/ modType = "labile",
         positionConstraint |-> a.positionConstraint,
         limitPerPosition |-> a.limitPerPosition,
         colocalizeKnown |-> a.colocalizeKnown,
         colocalizeUnknown |-> a.colocalizeUnknown, isIonType |-> a.isIonType,
         panics |-> modType \notin validModTypes \/ modValue.panics]

\* the string NewModification makes a value object of when none is passed:
\* the value with its crosslink id or its ambiguity group and score
taggedValue(a) ==
    IF a.ambiguityGroup # None /\ ~a.isAmbiguityRef
    THEN a.value \o <<"#">> \o Val(a.ambiguityGroup)
         \o (IF a.localizationScore # None
             THEN <<"(">> \o Format2f(Val(a.localizationScore)) \o <<")">>
             ELSE <<>>)
    ELSE IF a.crosslinkID # None /\ ~a.isCrosslinkRef
    THEN a.value \o <<"#">> \o Val(a.crosslinkID)
    ELSE a.value

\* NewModification without a value object (modValue nil): one is made of
\* the tagged value.  id names the allocated object (pointer identity).
NewModification(a, id) ==
    newModification(a, id, NewModificationValue(taggedValue(a), Some(a.mass)))

GetModType(m) == m.modType

\* Modification.HasAmbiguity
HasAmbiguity(m) ==
    \E i \in 1..Len(m.modValue.pipeValues) :
        m.modValue.pipeValues[i].valueType = "ambiguity"

\* Modification.GetCrosslinkID: the id of the first crosslink pipe value that
\* has one (the value object is never nil)
GetCrosslinkID(m) ==
    LET pvs == SelectSeq(m.modValue.pipeValues, LAMBDA pv : pv.valueType = "crosslink" /\ pv.crosslinkID # None)
    IN  IF pvs = <<>> THEN None ELSE pvs[1].crosslinkID

\* Modification.IsCrosslinkRef
IsCrosslinkRef(m) ==
    SelectSeq(m.modValue.pipeValues, LAMBDA pv : pv.valueType = "crosslink" /\ pv.isCrosslinkRef) # <<>>

\* Modification.GetAmbiguityGroup
GetAmbiguityGroup(m) ==
    LET pvs == SelectSeq(m.modValue.pipeValues, LAMBDA pv : pv.valueType = "ambiguity" /\ pv.ambiguityGroup # None)
    IN  IF pvs = <<>> THEN None ELSE pvs[1].ambiguityGroup

\* the text of one pipe value in Modification.ToProforma
PipePart(pv) ==
    LET massText == IF FloatGtZero(Val(pv.mass)) THEN <<"+">> \o FormatG(Val(pv.mass))
                    ELSE IF FloatLtZero(Val(pv.mass)) THEN FormatG(Val(pv.mass))
                    ELSE <<>>
        body == IF pv.source # None
                THEN Val(pv.source) \o <<":">> \o
                     (IF pv.mass # None THEN massText ELSE pv.value)
                ELSE IF pv.mass # None THEN massText
                ELSE IF pv.valueType = "synonym" THEN pv.value
                ELSE IF ~ContainsChar(pv.value, "#") THEN pv.value
                ELSE <<>>
        tag  == IF pv.valueType = "crosslink" /\ pv.crosslinkID # None
                THEN <<"#">> \o Val(pv.crosslinkID)
                ELSE IF pv.valueType = "branch" /\ pv.isBranch THEN <<"#", "B", "R", "A", "N", "C", "H">>
                ELSE IF pv.valueType = "ambiguity" /\ pv.ambiguityGroup # None
                THEN <<"#">> \o Val(pv.ambiguityGroup) \o
                     (IF pv.localizationScore # None
                      THEN <<"(">> \o Format2f(Val(pv.localizationScore)) \o <<")">>
                      ELSE <<>>)
                ELSE <<>>
    IN  body \o tag \o (IF pv.charge # None THEN <<":">> \o Val(pv.charge) ELSE <<>>)

\* the texts that ToProforma marks seen for a pipe value besides its part
PipeSeenMass(pv) ==
    IF pv.source # None /\ pv.mass # None
    THEN IF FloatGtZero(Val(pv.mass)) THEN {<<"+">> \o FormatG(Val(pv.mass))}
         ELSE IF FloatLtZero(Val(pv.mass)) THEN {FormatG(Val(pv.mass))}
         ELSE {}
    ELSE {}

RECURSIVE PipeParts(_, _)

\* the parts of the pipe values pvs from the second on, part being the text
\* of the first and seen1 the texts seen before it and with it
partsAfter(pvs, part, seen1) ==
    IF part \in seen1 \/ part = <<>>
    THEN PipeParts(Tail(pvs), seen1)
    ELSE <<part>> \o PipeParts(Tail(pvs), seen1 \cup {part})

\* Modification.ToProforma, lines 939-994: the parts written for the pipe
\* values pvs, each text once
PipeParts(pvs, seen) ==
    IF pvs = <<>> THEN <<>>
    ELSE partsAfter(pvs, PipePart(Head(pvs)), seen \cup PipeSeenMass(Head(pvs)))

\* ModToProforma with the limit written before the positions
ModToProformaLimitFirst(m) ==
    Join(PipeParts(m.modValue.pipeValues, {})
         \o (IF m.limitPerPosition # None
             THEN <<<<"L", "i", "m", "i", "t", ":">> \o Itoa(Val(m.limitPerPosition))>> ELSE <<>>)
         \o (IF Len(m.positionConstraint) > 0
             THEN <<<<"P", "o", "s", "i", "t", "i", "o", "n", ":">> \o Join(m.positionConstraint, <<",">>)>> ELSE <<>>)
         \o (IF m.colocalizeKnown THEN <<<<"C", "o", "M", "K", "P">>>> ELSE <<>>)
         \o (IF m.colocalizeUnknown THEN <<<<"C", "o", "M", "U", "P">>>> ELSE <<>>),
         <<"|">>)

\* Modification.ToProforma
ModToProforma(m) ==
    Join(PipeParts(m.modValue.pipeValues, {})
         \o (IF Len(m.positionConstraint) > 0
             THEN <<<<"P", "o", "s", "i", "t", "i", "o", "n", ":">> \o Join(m.positionConstraint, <<",">>)>> ELSE <<>>)
         \o (IF m.limitPerPosition # None
             THEN <<<<"L", "i", "m", "i", "t", ":">> \o Itoa(Val(m.limitPerPosition))>> ELSE <<>>)
         \o (IF m.colocalizeKnown THEN <<<<"C", "o", "M", "K", "P">>>> ELSE <<>>)
         \o (IF m.colocalizeUnknown THEN <<<<"C", "o", "M", "U", "P">>>> ELSE <<>>),
         <<"|">>)

\* ------------------------------------------------------------------ parser

ionTypeUnimodIDs == {<<"1", "4", "0">>, <<"2", "1", "3", "2">>, <<"4">>, <<"2", "4">>, <<"2", "1", "3", "3">>, <<"2", "3">>}

isIonTypeModification(modStr) ==
    \/ HasSuffix(ToLower(modStr), <<"-", "t", "y", "p", "e", "-", "i", "o", "n">>)
    \/ /\ HasPrefix(modStr, <<"U", "N", "I", "M", "O", "D", ":">>) \/ HasPrefix(modStr, <<"U", ":">>)
       /\ Len(Split(modStr, <<":">>)) >= 2
       /\ Split(modStr, <<":">>)[2] \in ionTypeUnimodIDs

\* the options map of createModification with no key set
NoOptions ==
    [isTerminal |-> FALSE, isAmbiguous |-> FALSE, isLabile |-> FALSE,
     isUnknownPosition |-> FALSE, crosslinkId |-> None, isCrosslinkRef |-> FALSE,
     isBranch |-> FALSE, isBranchRef |-> FALSE, isGap |-> FALSE,
     inRange |-> FALSE, rangeStart |-> None, rangeEnd |-> None]

\* the modification type createModification derives from its options
optionModType(o) ==
    IF o.isTerminal THEN "terminal"
    ELSE IF o.isAmbiguous THEN "ambiguous"
    ELSE IF o.isLabile THEN "labile"
    ELSE IF o.isUnknownPosition THEN "unknown_position"
    ELSE IF o.crosslinkId # None \/ o.isCrosslinkRef THEN "crosslink"
    ELSE IF o.isBranch \/ o.isBranchRef THEN "branch"
    ELSE IF o.isGap THEN "gap"
    ELSE "static"

\* the score of an ambiguity group, f being its text t read as a float
groupScore(t, f) == IF t # <<>> /\ f.ok THEN Some(f.v) ELSE None

\* the string is a mass shift for createModification
isMassShift(modStr) == MassShiftMatch(modStr) /\ ~ContainsChar(modStr, "#")

\* the arguments of NewModification for the three kinds of string
\* createModification tells apart: a mass shift (shift), an ambiguity group
\* with a name (amb) or without one (ref), and any other; range holds the
\* arguments common to all, ion says whether the name is an ion type
argsFor(modStr, o, range, shift, amb, ref, f, ion) ==
    IF shift
    THEN IF o.isGap
         THEN [range EXCEPT !.mass = f.v, !.isIonType = ion,
                            !.value = modStr, !.modType = "gap"]
         ELSE IF o.inRange
         THEN [range EXCEPT !.mass = f.v, !.isIonType = ion,
                            !.value = modStr, !.modType = "variable",
                            !.inRange = TRUE]
         ELSE [range EXCEPT !.mass = f.v, !.isIonType = ion,
                            !.value = <<"M", "a", "s", "s", ":">> \o modStr,
                            !.modType = optionModType(o), !.labile = o.isLabile]
    ELSE IF /\ ContainsChar(modStr, "#") /\ ~o.isCrosslinkRef /\ ~o.isBranch
            /\ ~o.isBranchRef /\ o.crosslinkId = None
            /\ amb.found /\ ~HasPrefix(amb.group, <<"X", "L">>)
    THEN [range EXCEPT !.value = amb.name,
             !.modType = "ambiguous", !.ambiguityGroup = Some(amb.group),
             !.localizationScore = groupScore(amb.score, f),
             !.isIonType = ion]
    ELSE IF /\ ContainsChar(modStr, "#") /\ ~o.isCrosslinkRef /\ ~o.isBranch
            /\ ~o.isBranchRef /\ o.crosslinkId = None
            /\ ref.found /\ ~HasPrefix(ref.group, <<"X", "L">>)
    THEN [range EXCEPT !.value = <<>>,
             !.modType = "ambiguous", !.ambiguityGroup = Some(ref.group),
             !.isAmbiguityRef = TRUE,
             !.localizationScore = groupScore(ref.score, f),
             !.isIonType = ion]
    ELSE [range EXCEPT !.value = modStr, !.modType = optionModType(o),
             !.labile = o.isLabile, !.crosslinkID = o.crosslinkId,
             !.isCrosslinkRef = o.isCrosslinkRef, !.isBranchRef = o.isBranchRef,
             !.isBranch = o.isBranch, !.isIonType = ion]

\* the ambiguity group with a name found in modStr is the one used
namedGroup(modStr, shift, amb) ==
    ~shift /\ ContainsChar(modStr, "#") /\ amb.found /\ ~HasPrefix(amb.group, <<"X", "L">>)

\* the arguments of NewModification, the value object apart, with what the
\* patterns of createModification found in modStr
argsMatched(modStr, o, shift, amb, ref) ==
    argsFor(modStr, o,
        [ModArgs EXCEPT !.inRange = o.inRange, !.rangeStart = o.rangeStart,
                        !.rangeEnd = o.rangeEnd],
        shift, amb, ref,
        ParseFloat(IF shift THEN modStr
                   ELSE IF namedGroup(modStr, shift, amb) THEN amb.score
                   ELSE ref.score),
        isIonTypeModification(
            IF namedGroup(modStr, shift, amb) /\ ~o.isCrosslinkRef /\ ~o.isBranch
               /\ ~o.isBranchRef /\ o.crosslinkId = None
            THEN amb.name ELSE modStr))

\* the arguments with which createModification calls NewModification,
\* the value object apart
createArgs(modStr, o) ==
    argsMatched(modStr, o, isMassShift(modStr), AmbiguityMatch(modStr, 1),
                AmbiguityMatch(modStr, 0))

\* createModification with the arguments a and shift saying whether modStr
\* is a mass shift, of which f is the number
created(modStr, a, id, shift, f) ==
    newModification(a, id,
        NewModificationValue(IF shift THEN <<"M", "a", "s", "s", ":">> \o modStr ELSE modStr,
                             IF shift THEN Some(f.v) ELSE None))

\* createModification: the value object it passes to NewModification is
\* made of "Mass:" and the string with its mass for a mass shift, and of the
\* string otherwise; it is never nil
createModification(modStr, o, id) ==
    created(modStr, createArgs(modStr, o), id, isMassShift(modStr),
            ParseFloat(modStr))

\* NewGlobalModification: a Modification of type "global" with its targets
\* (None: a nil slice) and sub-kind; any other sub-kind panics
NewGlobalModification(value, targetResidues, modType, positionConstraint, limitPerPosition, colocalizeKnown, colocalizeUnknown) ==
    [mod |-> [NewModification([ModArgs EXCEPT !.value = value, !.modType = "global",
                      !.positionConstraint = positionConstraint,
                      !.limitPerPosition = limitPerPosition,
                      !.colocalizeKnown = colocalizeKnown,
                      !.colocalizeUnknown = colocalizeUnknown], 0)
                 EXCEPT !.panics = @ \/ modType \notin {"isotope", "fixed"}],
     targetResidues |-> targetResidues, globalModType |-> modType]

\* the text GlobalModification.ToProforma makes of the text of the
\* modification and the targets
globalText(gm, modValue) ==
    IF gm.globalModType = "isotope" THEN <<"<">> \o modValue \o <<">">>
    ELSE <<"<">> \o (IF HasPrefix(modValue, <<"+">>) \/ HasPrefix(modValue, <<"-">>)
                  THEN modValue ELSE <<"[">> \o modValue \o <<"]">>)
              \o <<"@">>
              \o (IF gm.targetResidues = None THEN <<>>
                  ELSE Join(Val(gm.targetResidues), <<",">>))
              \o <<">">>

\* GlobalModification.ToProforma
GlobalModToProforma(gm) == globalText(gm, ModToProforma(gm.mod))

RECURSIVE ParenScan(_, _, _)
ParenScan(s, i, count) ==
    IF i < Len(s) /\ count > 0
    THEN ParenScan(s, i + 1, IF At(s, i) = "(" THEN count + 1
                             ELSE IF At(s, i) = ")" THEN count - 1 ELSE count)
    ELSE IF count = 0 THEN i ELSE -1

findBalancedParen(s, start) == ParenScan(s, start, 1)

RECURSIVE AngleScan(_, _, _)
AngleScan(s, i, inSquareBrackets) ==
    IF i >= Len(s) THEN -1
    ELSE IF At(s, i) = "[" THEN AngleScan(s, i + 1, TRUE)
    ELSE IF At(s, i) = "]" THEN AngleScan(s, i + 1, FALSE)
    ELSE IF At(s, i) = ">" /\ ~inSquareBrackets THEN i + 1
    ELSE AngleScan(s, i + 1, inSquareBrackets)

findBalancedAngleBracket(s, start) == AngleScan(s, start, FALSE)

\* the loop "for j < len(s) && bracketCount > 0" over square brackets:
\* where it stops and the count left open
RECURSIVE BracketScan(_, _, _)
BracketScan(s, j, bracketCount) ==
    IF j < Len(s) /\ bracketCount > 0
    THEN BracketScan(s, j + 1, IF At(s, j) = "[" THEN bracketCount + 1
                               ELSE IF At(s, j) = "]" THEN bracketCount - 1
                               ELSE bracketCount)
    ELSE [j |-> j, open |-> bracketCount]

\* the named-entity prefix (>>>name), (>>name) or (>name) cut off
StripName(s, marker) ==
    IF HasPrefix(s, marker) /\ findBalancedParen(s, Len(marker)) > 0
    THEN From(s, findBalancedParen(s, Len(marker)))
    ELSE s

StripNames(s) == StripName(StripName(StripName(s, <<"(", ">", ">", ">">>), <<"(", ">", ">">>), <<"(", ">">>)

\* the modifications map of Parse: the keys strconv.Itoa(pos) in the order of
\* their first use, each with its list
getModsAtPosition(modifications, pos) ==
    LET hits == {k \in 1..Len(modifications) : modifications[k].key = Itoa(pos)}
    IN  IF hits = {} THEN <<>> ELSE modifications[CHOOSE k \in hits : TRUE].mods

setModsAtPosition(modifications, pos, mods) ==
    IF \E k \in 1..Len(modifications) : modifications[k].key = Itoa(pos)
    THEN [k \in 1..Len(modifications) |->
             IF modifications[k].key = Itoa(pos)
             THEN [key |-> Itoa(pos), mods |-> mods] ELSE modifications[k]]
    ELSE Append(modifications, [key |-> Itoa(pos), mods |-> mods])

AppendMod(modifications, pos, mod) ==
    setModsAtPosition(modifications, pos,
                      Append(getModsAtPosition(modifications, pos), mod))

\* the state of Parse between its phases
ParseStart(proformaStr) ==
    [str |-> StripNames(proformaStr), modifications |-> <<>>, globalMods |-> <<>>,
     sequenceAmbiguities |-> <<>>, charge |-> None, err |-> None, nextId |-> 1,
     panics |-> FALSE]

Fail(st, msg) == [st EXCEPT !.err = Some(msg)]

\* AppendAt that appends at the last position only
AppendAtEnd(modifications, from, to, mod) ==
    IF from > to THEN modifications ELSE AppendMod(modifications, to, mod)

\* modifications with mod appended at each of the positions from..to
RECURSIVE AppendAt(_, _, _, _)
AppendAt(modifications, from, to, mod) ==
    IF from > to THEN modifications
    ELSE AppendAt(AppendMod(modifications, from, mod), from + 1, to, mod)

\* st with the modification mod, which was just made, appended at each of
\* the positions from..to
Attach(st, from, to, mod) ==
    [st EXCEPT !.modifications = AppendAt(@, from, to, mod),
               !.nextId = @ + 1, !.panics = @ \/ mod.panics]

\* st with a modification made from modStr appended at pos
AddCreated(st, pos, modStr, o) ==
    Attach(st, pos, pos, createModification(modStr, o, st.nextId))

\* the placement control tags of a fixed global modification
RECURSIVE ControlTags(_, _)
ControlTags(parts, t) ==
    IF parts = <<>> THEN t
    ELSE LET part == Head(parts)
             lim  == Atoi(TrimPrefix(part, <<"L", "i", "m", "i", "t", ":">>))
         IN  ControlTags(Tail(parts),
                 IF HasPrefix(part, <<"P", "o", "s", "i", "t", "i", "o", "n", ":">>)
                 THEN [t EXCEPT !.positionConstraint =
                          Split(TrimPrefix(part, <<"P", "o", "s", "i", "t", "i", "o", "n", ":">>), <<",">>)]
                 ELSE IF HasPrefix(part, <<"L", "i", "m", "i", "t", ":">>)
                 THEN [t EXCEPT !.limitPerPosition = IF lim.ok THEN Some(lim.v) ELSE @]
                 ELSE IF part \in {<<"C", "o", "M", "K", "P">>, <<"C", "o", "l", "o", "c", "a", "l", "i", "s", "e", "M", "o", "d", "i", "f", "i", "c", "a", "t", "i", "o", "n", "s", "O", "f", "K", "n", "o", "w", "n", "P", "o", "s", "i", "t", "i", "o", "n">>}
                 THEN [t EXCEPT !.colocalizeKnown = TRUE]
                 ELSE IF part \in {<<"C", "o", "M", "U", "P">>, <<"C", "o", "l", "o", "c", "a", "l", "i", "s", "e", "M", "o", "d", "i", "f", "i", "c", "a", "t", "i", "o", "n", "s", "O", "f", "U", "n", "k", "n", "o", "w", "n", "P", "o", "s", "i", "t", "i", "o", "n">>}
                 THEN [t EXCEPT !.colocalizeUnknown = TRUE]
                 ELSE t)

\* the control tags of a global modification that has none
NoTags ==
    [positionConstraint |-> <<>>, limitPerPosition |-> None,
     colocalizeKnown |-> FALSE, colocalizeUnknown |-> FALSE]

\* the global modification of a fixed block: its parts around "@", the
\* modification with its brackets cut off
fixedGlobalMod(parts, bare) ==
    LET modParts == Split(bare, <<"|">>)
        tags     == ControlTags(IF ContainsChar(bare, "|") THEN Tail(modParts)
                                ELSE <<>>, NoTags)
    IN  [value |-> IF ContainsChar(bare, "|") THEN modParts[1] ELSE bare,
         targets |-> Some(Split(parts[2], <<",">>)), modType |-> "fixed", tags |-> tags]

\* the arguments of NewGlobalModification for one <...> block, the angle
\* brackets cut off
globalModArgs(globalModStr) ==
    LET parts   == Split(globalModStr, <<"@">>)
        modPart == parts[1]
    IN  IF ContainsChar(globalModStr, "@")
        THEN fixedGlobalMod(parts,
                 IF HasPrefix(modPart, <<"[">>) /\ HasSuffix(modPart, <<"]">>)
                 THEN Slice(modPart, 1, Len(modPart) - 1) ELSE modPart)
        ELSE [value |-> globalModStr, targets |-> None, modType |-> "isotope",
              tags |-> NoTags]

\* NewGlobalModification with the arguments g
globalModOfArgs(g) ==
    NewGlobalModification(g.value, g.targets, g.modType, g.tags.positionConstraint,
                          g.tags.limitPerPosition, g.tags.colocalizeKnown,
                          g.tags.colocalizeUnknown)

\* one <...> block, the angle brackets cut off
GlobalModOf(globalModStr) == globalModOfArgs(globalModArgs(globalModStr))

\* st with the global modification gm added and its block, which ends
\* before the offset endBracket, cut off
globalModAdded(st, gm, endBracket) ==
    [st EXCEPT !.str = From(st.str, endBracket), !.globalMods = Append(@, gm),
               !.panics = @ \/ gm.mod.panics]

\* Parse, lines 232-291: the leading global modifications
RECURSIVE ParseGlobalMods(_)
ParseGlobalMods(st) ==
    LET endBracket   == findBalancedAngleBracket(st.str, 1)
        globalModStr == Slice(st.str, 1, endBracket - 1)
    IN  IF ~HasPrefix(st.str, <<"<">>) THEN st
        ELSE IF endBracket = -1
        THEN Fail(st, "unclosed global modification angle bracket")
        ELSE IF ContainsChar(globalModStr, "@") /\ Len(Split(globalModStr, <<"@">>)) # 2
        THEN Fail(st, "invalid global modification format")
        ELSE ParseGlobalMods(globalModAdded(st, GlobalModOf(globalModStr), endBracket))

\* Repeat without the count: one entry whatever n
RepeatOnce(x, n) == <<x>>

\* Parse, lines 347-349: n times x
RECURSIVE Repeat(_, _)
Repeat(x, n) == IF n <= 0 THEN <<>> ELSE <<x>> \o Repeat(x, n - 1)

RECURSIVE AddAllCreated(_, _, _, _)
AddAllCreated(st, pos, modStrs, o) ==
    IF modStrs = <<>> THEN st
    ELSE AddAllCreated(AddCreated(st, pos, Head(modStrs), o), pos, Tail(modStrs), o)

\* Parse, lines 299-351: the scan of the leading [..] blocks of a string
\* that holds a "?" somewhere; s is the string, i the offset
RECURSIVE UnknownScan(_, _, _)
UnknownScan(st, i, unknownPosMods) ==
    LET s      == st.str
        b      == BracketScan(s, i + 1, 1)
        modStr == Slice(s, i + 1, b.j - 1)
        caret  == b.j < Len(s) /\ At(s, b.j) = "^"
        nd     == IF caret THEN RunLen(s, b.j + 1, Digits) ELSE 0
        j      == IF caret THEN b.j + 1 + nd ELSE b.j
        count  == IF nd > 0 THEN NatOf(Slice(s, b.j + 1, b.j + 1 + nd)) ELSE 1
    IN  IF i >= Len(s) THEN [st EXCEPT !.str = From(s, i)]
        ELSE IF At(s, i) # "["
        THEN IF Len(unknownPosMods) > 0 /\ At(s, i) = "?"
             THEN [AddAllCreated(st, -4, unknownPosMods,
                                 [NoOptions EXCEPT !.isUnknownPosition = TRUE])
                      EXCEPT !.str = From(s, i + 1)]
             ELSE [st EXCEPT !.str = From(s, i)]
        ELSE IF b.open > 0 THEN Fail(st, "unclosed bracket")
        ELSE UnknownScan(st, j, unknownPosMods \o Repeat(modStr, count))

\* Parse, lines 293-353
ParseUnknownPosition(st) ==
    IF st.err = None /\ ContainsChar(st.str, "?") THEN UnknownScan(st, 0, <<>>)
    ELSE st

\* LabileScan that takes a block not starting with "Glycan:" as an error
RECURSIVE LabileScanGlycan(_)
LabileScanGlycan(st) ==
    LET j == Index(st.str, <<"}">>)
    IN  IF st.str = <<>> \/ st.str[1] # "{" THEN st
        ELSE IF j = -1 THEN Fail(st, "unclosed curly brace")
        ELSE IF ~HasPrefix(Slice(st.str, 1, j), <<"G", "l", "y", "c", "a", "n", ":">>)
        THEN Fail(st, "invalid labile modification")
        ELSE LabileScanGlycan([AddCreated(st, -3, Slice(st.str, 1, j),
                                          [NoOptions EXCEPT !.isLabile = TRUE])
                                  EXCEPT !.str = From(st.str, j + 1)])

\* the leading {..} blocks of st.str
RECURSIVE LabileScan(_)
LabileScan(st) ==
    LET j == Index(st.str, <<"}">>)
    IN  IF st.str = <<>> \/ st.str[1] # "{" THEN st
        ELSE IF j = -1 THEN Fail(st, "unclosed curly brace")
        ELSE LabileScan([AddCreated(st, -3, Slice(st.str, 1, j),
                                    [NoOptions EXCEPT !.isLabile = TRUE])
                            EXCEPT !.str = From(st.str, j + 1)])

\* Parse, lines 355-373
ParseLabile(st) == IF st.err = None THEN LabileScan(st) ELSE st

\* the first "-" at bracket level 0, scanning left to right (-1: none)
RECURSIVE DashFromLeft(_, _, _)
DashFromLeft(s, i, bracketLevel) ==
    IF i >= Len(s) THEN -1
    ELSE IF At(s, i) = "[" THEN DashFromLeft(s, i + 1, bracketLevel + 1)
    ELSE IF At(s, i) = "]" THEN DashFromLeft(s, i + 1, bracketLevel - 1)
    ELSE IF At(s, i) = "-" /\ bracketLevel = 0 THEN i
    ELSE DashFromLeft(s, i + 1, bracketLevel)

\* the last "-" at bracket level 0, scanning right to left (-1: none)
RECURSIVE DashFromRight(_, _, _)
DashFromRight(s, i, bracketLevel) ==
    IF i < 0 THEN -1
    ELSE IF At(s, i) = "]" THEN DashFromRight(s, i - 1, bracketLevel + 1)
    ELSE IF At(s, i) = "[" THEN DashFromRight(s, i - 1, bracketLevel - 1)
    ELSE IF At(s, i) = "-" /\ bracketLevel = 0 THEN i
    ELSE DashFromRight(s, i - 1, bracketLevel)

\* the closed [..] blocks of a terminal part, in order
RECURSIVE TerminalBlocks(_, _)
TerminalBlocks(part, currentPos) ==
    LET b == BracketScan(part, currentPos + 1, 1)
    IN  IF currentPos >= Len(part) THEN <<>>
        ELSE IF At(part, currentPos) # "[" THEN TerminalBlocks(part, currentPos + 1)
        ELSE (IF b.open = 0 THEN <<Slice(part, currentPos + 1, b.j - 1)>> ELSE <<>>)
             \o TerminalBlocks(part, b.j)

\* Parse, lines 375-431
ParseNTerminal(st) ==
    LET terminatorPos == DashFromLeft(st.str, 0, 0)
    IN  IF st.err = None /\ HasPrefix(st.str, <<"[">>) /\ terminatorPos # -1
        THEN [AddAllCreated(st, -1, TerminalBlocks(Slice(st.str, 0, terminatorPos), 0),
                            [NoOptions EXCEPT !.isTerminal = TRUE])
                 EXCEPT !.str = From(st.str, terminatorPos + 1)]
        ELSE st

\* Parse, lines 440-498
ParseCTerminal(st) ==
    LET terminatorPos == DashFromRight(st.str, Len(st.str) - 1, 0)
    IN  IF st.err = None /\ ContainsChar(st.str, "-") /\ terminatorPos # -1
        THEN [AddAllCreated(st, -2, TerminalBlocks(From(st.str, terminatorPos + 1), 0),
                            [NoOptions EXCEPT !.isTerminal = TRUE])
                 EXCEPT !.str = Slice(st.str, 0, terminatorPos)]
        ELSE st

\* the first "/" at bracket level 0 over "[", "(" and "]", ")" (-1: none)
RECURSIVE SlashScan(_, _, _)
SlashScan(s, i, bracketLevel) ==
    IF i >= Len(s) THEN -1
    ELSE IF At(s, i) \in {"[", "("} THEN SlashScan(s, i + 1, bracketLevel + 1)
    ELSE IF At(s, i) \in {"]", ")"} THEN SlashScan(s, i + 1, bracketLevel - 1)
    ELSE IF At(s, i) = "/" /\ bracketLevel = 0 THEN i
    ELSE SlashScan(s, i + 1, bracketLevel)

\* the closing bracket of the species block that opens at remaining[0]
\* (0: none)
RECURSIVE SpeciesEnd(_, _, _)
SpeciesEnd(remaining, j, bracketLevel) ==
    IF j >= Len(remaining) THEN 0
    ELSE LET lvl == IF At(remaining, j) = "[" THEN bracketLevel + 1
                    ELSE IF At(remaining, j) = "]" THEN bracketLevel - 1
                    ELSE bracketLevel
         IN  IF lvl = 0 THEN j ELSE SpeciesEnd(remaining, j + 1, lvl)

\* parseChargeInfo: [str, charge, species]
parseChargeInfo(proformaStr) ==
    LET none      == [str |-> proformaStr, charge |-> None, species |-> None]
        chargePos == SlashScan(proformaStr, 0, 0)
        after     == From(proformaStr, chargePos + 1)
        neg       == after # <<>> /\ after[1] = "-"
        start     == IF neg THEN 1 ELSE 0
        nd        == RunLen(after, start, Digits)
        value     == NatOf(Slice(after, start, start + nd))
        remaining == From(after, start + nd)
        endPos    == IF remaining # <<>> /\ remaining[1] = "["
                     THEN SpeciesEnd(remaining, 1, 1) ELSE 0
    IN  IF ~ContainsChar(proformaStr, "/") \/ chargePos = -1 \/ nd = 0 THEN none
        ELSE [str     |-> Slice(proformaStr, 0, chargePos)
                          \o (IF endPos > 0 THEN From(remaining, endPos + 1)
                              ELSE remaining),
              charge  |-> Some(IF neg THEN 0 - value ELSE value),
              species |-> IF endPos > 0 THEN Some(Slice(remaining, 1, endPos))
                          ELSE None]

\* st with the charge information ci cut out of its string
chargeCut(st, ci) == [st EXCEPT !.str = ci.str, !.charge = ci.charge]

\* Parse, lines 433-438
ParseCharge(st) ==
    IF st.err = None THEN chargeCut(st, parseChargeInfo(st.str)) ELSE st

\* Parse, lines 538-568: the [..] blocks that follow a ")"; j is the offset
\* of the next candidate block.  Returns the state and where the scan ended.
RECURSIVE RangeMods(_, _, _, _)
RangeMods(st, j, rangeStart, rangeEnd) ==
    LET s == st.str
        b == BracketScan(s, j + 1, 1)
    IN  IF j < Len(s) /\ At(s, j) = "["
        THEN IF b.open = 0
             THEN RangeMods(
                      Attach(st, rangeStart, rangeEnd,
                          createModification(Slice(s, j + 1, b.j - 1),
                              [NoOptions EXCEPT !.inRange = TRUE,
                                                !.rangeStart = Some(rangeStart),
                                                !.rangeEnd = Some(rangeEnd)],
                              st.nextId)),
                      b.j, rangeStart, rangeEnd)
             ELSE RangeMods(st, b.j, rangeStart, rangeEnd)
        ELSE [st |-> st, j |-> j]

\* BlockOptions without the gap: the block after an X is read as any other
BlockOptionsNoGap(modStr, nextModIsGap) ==
    IF CrosslinkRefMatch(modStr) THEN [NoOptions EXCEPT !.isCrosslinkRef = TRUE]
    ELSE IF BranchRefMatch(modStr) THEN [NoOptions EXCEPT !.isBranchRef = TRUE]
    ELSE IF CrosslinkMatch(modStr).found
    THEN [NoOptions EXCEPT !.crosslinkId = Some(CrosslinkMatch(modStr).id)]
    ELSE IF BranchMatch(modStr) THEN [NoOptions EXCEPT !.isBranch = TRUE]
    ELSE NoOptions

\* the options Parse passes for a [..] block of the main sequence
BlockOptions(modStr, nextModIsGap) ==
    IF nextModIsGap THEN [NoOptions EXCEPT !.isGap = TRUE]
    ELSE IF CrosslinkRefMatch(modStr) THEN [NoOptions EXCEPT !.isCrosslinkRef = TRUE]
    ELSE IF BranchRefMatch(modStr) THEN [NoOptions EXCEPT !.isBranchRef = TRUE]
    ELSE IF CrosslinkMatch(modStr).found
    THEN [NoOptions EXCEPT !.crosslinkId = Some(CrosslinkMatch(modStr).id)]
    ELSE IF BranchMatch(modStr) THEN [NoOptions EXCEPT !.isBranch = TRUE]
    ELSE NoOptions

\* st with a modification created from modStr, attached to the last residue
\* read so far if there is one (the object is made either way)
AddToLast(st, baseSequence, modStr, o) ==
    Attach(st, IF Len(baseSequence) > 0 THEN Len(baseSequence) - 1 ELSE 0,
           Len(baseSequence) - 1, createModification(modStr, o, st.nextId))

RECURSIVE MainLoop(_, _, _, _, _)

\* the main loop resumed after the blocks of a range, rm being what
\* RangeMods returned
afterRange(rm, baseSequence, nextModIsGap, rangeStack) ==
    MainLoop(rm.st, rm.j, baseSequence, nextModIsGap, rangeStack)

\* Parse, lines 500-642: the main sequence
MainLoop(st, i, baseSequence, nextModIsGap, rangeStack) ==
    LET s    == st.str
        char == At(s, i)
        cp   == Index(From(s, i + 2), <<")">>)
        b    == BracketScan(s, i + 1, 1)
        cb   == Index(From(s, i), <<"}">>)
    IN  IF st.err # None THEN st
        ELSE IF i >= Len(s)
        THEN IF Len(rangeStack) > 0 THEN Fail(st, "unclosed parenthesis")
             ELSE [st EXCEPT !.str = baseSequence]
        ELSE IF MatchAt(s, i, <<"(", "?">>)
        THEN IF cp = -1 THEN Fail(st, "unclosed sequence ambiguity parenthesis")
             ELSE MainLoop([st EXCEPT !.sequenceAmbiguities =
                               Append(@, [value |-> Slice(s, i + 2, cp + i + 2),
                                          position |-> 0])],
                           cp + i + 3, baseSequence, nextModIsGap, rangeStack)
        ELSE IF char = "("
        THEN MainLoop(st, i + 1, baseSequence, nextModIsGap,
                      Append(rangeStack, Len(baseSequence)))
        ELSE IF char = ")"
        THEN IF Len(rangeStack) = 0 THEN Fail(st, "unmatched closing parenthesis")
             ELSE afterRange(RangeMods(st, i + 1, rangeStack[Len(rangeStack)],
                                       Len(baseSequence) - 1),
                             baseSequence, nextModIsGap,
                             SubSeq(rangeStack, 1, Len(rangeStack) - 1))
        ELSE IF char = "[" /\ b.open > 0 THEN Fail(st, "unclosed square bracket")
        ELSE IF char = "{" /\ cb = -1 THEN Fail(st, "unclosed curly brace")
        ELSE IF char \in {"[", "{"}
        THEN MainLoop(
                 AddToLast(st, baseSequence,
                     IF char = "[" THEN Slice(s, i + 1, b.j - 1)
                     ELSE Slice(s, i + 1, cb + i),
                     IF char = "[" THEN BlockOptions(Slice(s, i + 1, b.j - 1), nextModIsGap)
                     ELSE [NoOptions EXCEPT !.isAmbiguous = TRUE]),
                 IF char = "[" THEN b.j ELSE cb + i + 1,
                 baseSequence, nextModIsGap /\ char # "[", rangeStack)
        ELSE MainLoop(st, i + 1, Append(baseSequence, char),
                      nextModIsGap \/ (char = "X" /\ i + 1 < Len(s) /\ At(s, i + 1) = "["),
                      rangeStack)

\* what Parse returns from the state st its last phase left: [err,
\* baseSequence, modifications, globalMods, sequenceAmbiguities, charge,
\* panics]; on an error every other result is nil
parseReturn(st) ==
    IF st.err # None
    THEN [err |-> st.err, baseSequence |-> <<>>, modifications |-> <<>>,
          globalMods |-> <<>>, sequenceAmbiguities |-> <<>>, charge |-> None,
          panics |-> st.panics]
    ELSE [err |-> None, baseSequence |-> st.str,
          modifications |-> st.modifications, globalMods |-> st.globalMods,
          sequenceAmbiguities |-> st.sequenceAmbiguities, charge |-> st.charge,
          panics |-> st.panics]

\* Parse: the phases in the order of the code, each on the state the one
\* before left, and none after an error
Parse(proformaStr) ==
    parseReturn(
        MainLoop(
            ParseCTerminal(ParseCharge(ParseNTerminal(ParseLabile(
                ParseUnknownPosition(ParseGlobalMods(ParseStart(proformaStr))))))),
            0, <<>>, FALSE, <<>>))

\* the result of ParseProFormaDetailed made of the result r of Parse
detailed(r, proformaStr) ==
    [err |-> r.err, BaseSequence |-> r.baseSequence,
     Modifications |-> r.modifications, GlobalMods |-> r.globalMods,
     SequenceAmbiguities |-> r.sequenceAmbiguities, Charge |-> r.charge,
     IonicSpecies |-> IF r.err = None /\ ContainsChar(proformaStr, "/")
                      THEN parseChargeInfo(proformaStr).species ELSE None,
     panics |-> r.panics]

\* ParseProFormaDetailed: the result of Parse with the ionic species, which
\* is read by parseChargeInfo from the whole input.  The three names are
\* read too but FromProforma uses none of them.
ParseProFormaDetailed(proformaStr) == detailed(Parse(proformaStr), proformaStr)

\* ---------------------------------------------------------------- sequence

\* the keys of AAMass
AAMass ==
    {"A", "R", "N", "D", "C", "E", "Q", "G", "H", "I", "L", "K", "M", "F", "P",
     "S", "T", "W", "Y", "V", "X", "O", "U"}

\* NewAminoAcid(value, position, nil): no residue for a value outside AAMass.
\* The position argument is the address of parseSequence's counter, kept by
\* NewBaseBlock as it is: see GetPosition.
NewAminoAcid(value) ==
    IF Len(value) = 1 /\ value[1] \in AAMass
    THEN [err |-> FALSE, aa |-> [value |-> value, mods |-> <<>>]]
    ELSE [err |-> TRUE, aa |-> [value |-> value, mods |-> <<>>]]

AddModification(aa, mod) == [aa EXCEPT !.mods = Append(@, mod)]

RECURSIVE AddModificationsTo(_, _)
AddModificationsTo(aa, mods) ==
    IF mods = <<>> THEN aa
    ELSE AddModificationsTo(AddModification(aa, Head(mods)), Tail(mods))

modEnclosureStart == {"(", "[", "{"}

modEnclosureEnd == {")", "]", "}"}

\* sequenceIterator: the blocks [Value, IsMod] of seq
RECURSIVE IterateBlocks(_, _, _, _)
IterateBlocks(seq, modOpen, block, isMod) ==
    IF seq = <<>> THEN <<>>
    ELSE LET char == Head(seq)
             open == IF char \in modEnclosureStart THEN modOpen + 1
                     ELSE IF char \in modEnclosureEnd THEN modOpen - 1
                     ELSE modOpen
             mod  == isMod \/ char \in modEnclosureStart
         IN  IF open = 0
             THEN <<[Value |-> Append(block, char), IsMod |-> mod]>>
                  \o IterateBlocks(Tail(seq), 0, <<>>, FALSE)
             ELSE IterateBlocks(Tail(seq), open, Append(block, char), mod)

sequenceIterator(seq) == IterateBlocks(seq, 0, <<>>, FALSE)

extractModValue(modStr) ==
    IF Len(modStr) >= 2
       /\ <<modStr[1], modStr[Len(modStr)]>> \in {<<"(", ")">>, <<"[", "]">>, <<"{", "}">>}
    THEN SubSeq(modStr, 2, Len(modStr) - 1)
    ELSE modStr

\* seq with the modifications held back for the first residue attached to
\* the residue at currentPosition, if there is one
withHeld(seq, currentMod, currentPosition) ==
    IF Len(currentMod) > 0 /\ currentPosition > 0
    THEN [seq EXCEPT ![currentPosition] = AddModificationsTo(@, currentMod)]
    ELSE seq

RECURSIVE ParseBlocks(_, _, _, _)

\* parseSequence at a block that is no modification, new being what
\* NewAminoAcid made of it
residueBlock(blocks, seq, currentMod, currentPosition, new) ==
    IF new.err
    THEN [seq |-> withHeld(seq, currentMod, currentPosition),
          currentPosition |-> currentPosition, err |-> TRUE]
    ELSE ParseBlocks(Tail(blocks),
                     Append(withHeld(seq, currentMod, currentPosition), new.aa),
                     <<>>, currentPosition + 1)

\* parseSequence at a modification block, mod being the modification made
\* of it
modBlock(blocks, seq, currentMod, currentPosition, mod) ==
    IF currentPosition > 0
    THEN ParseBlocks(Tail(blocks),
             [seq EXCEPT ![currentPosition] = AddModification(@, mod)],
             currentMod, currentPosition)
    ELSE ParseBlocks(Tail(blocks), seq, Append(currentMod, mod), currentPosition)

\* parseSequence with modPosition "right" and an empty s.mods, from the
\* block list on: [seq, currentPosition, err]
ParseBlocks(blocks, seq, currentMod, currentPosition) ==
    IF blocks = <<>>
    THEN [seq |-> seq, currentPosition |-> currentPosition, err |-> FALSE]
    ELSE IF ~Head(blocks).IsMod
    THEN residueBlock(blocks, seq, currentMod, currentPosition,
                      NewAminoAcid(Head(blocks).Value))
    ELSE modBlock(blocks, seq, currentMod, currentPosition,
                  NewModification([ModArgs EXCEPT
                      !.value = extractModValue(Head(blocks).Value)], 0))

parseSequence(seqStr) == ParseBlocks(sequenceIterator(seqStr), <<>>, <<>>, 0)

VirtualPositions == {-1, -2, -3, -4}

\* the Sequence NewSequence makes of what parseSequence returned
newSequence(p, globalMods, sequenceAmbiguities, charge, ionicSpecies) ==
    [seq |-> p.seq, currentPosition |-> p.currentPosition,
     mods |-> [pos \in VirtualPositions |-> <<>>],
     globalMods |-> globalMods, sequenceAmbiguities |-> sequenceAmbiguities,
     seqLength |-> Len(p.seq), charge |-> charge,
     ionicSpecies |-> ionicSpecies, isMultiChain |-> FALSE,
     isChimeric |-> FALSE, chains |-> <<>>, peptidoforms |-> <<>>]

\* NewSequence(seq, an empty map, true, "right", no chains, ...): the error
\* of parseSequence is dropped.  mods holds a list per virtual position (an
\* absent key and an empty list serialize alike); chains and peptidoforms
\* hold the members after the sequence itself; currentPosition is the
\* counter of parseSequence, whose address every residue holds.
NewSequence(seq, globalMods, sequenceAmbiguities, charge, ionicSpecies) ==
    newSequence(parseSequence(seq), globalMods, sequenceAmbiguities, charge,
                ionicSpecies)

\* AminoAcid.GetPosition for the residue at index i of s: the value the
\* shared counter holds now
GetPosition(s, i) == s.currentPosition

\* SplitChimericProforma: the non-empty parts between the "+" at bracket
\* level 0 (the level never falls below 0)
RECURSIVE ChimericParts(_, _, _, _)
ChimericParts(s, i, currentPartStart, bracketLevel) ==
    LET part == Slice(s, currentPartStart, i)
    IN  IF i >= Len(s)
        THEN IF currentPartStart < Len(s) THEN <<From(s, currentPartStart)>> ELSE <<>>
        ELSE IF At(s, i) \in {"[", "{", "("}
        THEN ChimericParts(s, i + 1, currentPartStart, bracketLevel + 1)
        ELSE IF At(s, i) \in {"]", "}", ")"}
        THEN ChimericParts(s, i + 1, currentPartStart,
                           IF bracketLevel > 0 THEN bracketLevel - 1 ELSE 0)
        ELSE IF At(s, i) = "+" /\ bracketLevel = 0
        THEN (IF Len(part) > 0 THEN <<part>> ELSE <<>>)
             \o ChimericParts(s, i + 1, i + 1, bracketLevel)
        ELSE ChimericParts(s, i + 1, currentPartStart, bracketLevel)

SplitChimericProforma(proformaStr) == ChimericParts(proformaStr, 0, 0, 0)

\* RouteMods with a modification of a virtual position attached to the last
\* residue as well
RouteModsShared(seq, entry) ==
    LET pos == Atoi(entry.key).v
    IN  IF pos \in VirtualPositions
        THEN [seq EXCEPT !.mods[pos] = @ \o entry.mods,
                         !.seq = IF Len(@) > 0
                                 THEN [@ EXCEPT ![Len(@)] = AddModificationsTo(@, entry.mods)]
                                 ELSE @]
        ELSE IF pos >= 0 /\ pos < Len(seq.seq)
        THEN [seq EXCEPT !.seq[pos + 1] = AddModificationsTo(@, entry.mods)]
        ELSE seq

\* FromProforma, lines 132-147: the modifications of one key of the map put
\* where the key says (the keys are distinct, so the order in which the map
\* yields them does not show)
RouteMods(seq, entry) ==
    LET pos == Atoi(entry.key).v
    IN  IF pos \in VirtualPositions
        THEN [seq EXCEPT !.mods[pos] = @ \o entry.mods]
        ELSE IF pos >= 0 /\ pos < Len(seq.seq)
        THEN [seq EXCEPT !.seq[pos + 1] = AddModificationsTo(@, entry.mods)]
        ELSE seq

RECURSIVE RouteAll(_, _)
RouteAll(seq, modifications) ==
    IF modifications = <<>> THEN seq
    ELSE RouteAll(RouteMods(seq, Head(modifications)), Tail(modifications))

\* FromProforma, lines 104-150: the model made of the result of
\* ParseProFormaDetailed.  [err, panics, seq]
fromParsed(result) ==
    IF result.panics THEN [err |-> None, panics |-> TRUE, seq |-> None]
    ELSE IF result.err # None
    THEN [err |-> result.err, panics |-> FALSE, seq |-> None]
    ELSE [err |-> None, panics |-> FALSE,
          seq |-> Some(RouteAll(
                     [NewSequence(result.BaseSequence, result.GlobalMods,
                                  result.SequenceAmbiguities, result.Charge,
                                  result.IonicSpecies)
                         EXCEPT !.isChimeric = result.Charge # None],
                     result.Modifications))]

\* FromProforma for one peptidoform
FromSingle(proformaStr) == fromParsed(ParseProFormaDetailed(proformaStr))

\* the members after the first: the list so far, or the first failure
RECURSIVE FromAll(_, _, _)

RECURSIVE FromProforma(_)
FromProforma(proformaStr) ==
    LET chains       == Split(proformaStr, <<"/", "/">>)
        peptidoforms == SplitChimericProforma(proformaStr)
        parts        == IF Contains(proformaStr, <<"/", "/">>) THEN chains ELSE peptidoforms
        mainSeq      == FromProforma(parts[1])
        rest         == FromAll(Tail(parts), <<>>, ~Contains(proformaStr, <<"/", "/">>))
    IN  IF ~Contains(proformaStr, <<"/", "/">>) /\ Len(peptidoforms) <= 1
        THEN FromSingle(proformaStr)
        ELSE IF mainSeq.panics \/ mainSeq.err # None THEN mainSeq
        ELSE IF rest.panics \/ rest.err # None
        THEN [err |-> rest.err, panics |-> rest.panics, seq |-> None]
        ELSE IF Contains(proformaStr, <<"/", "/">>)
        THEN [mainSeq EXCEPT !.seq = Some([Val(@) EXCEPT !.isMultiChain = TRUE,
                                              !.chains = rest.list])]
        ELSE [mainSeq EXCEPT !.seq = Some([Val(@) EXCEPT !.isChimeric = TRUE,
                                              !.peptidoforms = rest.list])]

FromAll(strs, list, chimeric) ==
    LET r == FromProforma(Head(strs))
    IN  IF strs = <<>> THEN [err |-> None, panics |-> FALSE, list |-> list]
        ELSE IF r.panics \/ r.err # None
        THEN [err |-> r.err, panics |-> r.panics, list |-> list]
        ELSE FromAll(Tail(strs),
                     Append(list, IF chimeric
                                  THEN [Val(r.seq) EXCEPT !.isChimeric = TRUE]
                                  ELSE Val(r.seq)),
                     chimeric)

\* ------------------------------------------------------------ serialization

RECURSIVE ConcatAll(_)
ConcatAll(parts) == IF parts = <<>> THEN <<>> ELSE Head(parts) \o ConcatAll(Tail(parts))

\* every order in which a Go map with the keys S can be ranged over
RECURSIVE Orders(_)
Orders(S) ==
    IF S = {} THEN {<<>>}
    ELSE UNION {{<<k>> \o o : o \in Orders(S \ {k})} : k \in S}

\* chainToProforma, lines 306-321: unknownModsByValue counts the
\* modifications of position -4 by their text; the text written for the map
\* ranged over in the order keys
UnknownModsText(unknownMods, keys) ==
    LET count(v) == Cardinality({i \in 1..Len(unknownMods) :
                                    ModToProforma(unknownMods[i]) = v})
    IN  ConcatAll([k \in 1..Len(keys) |->
            IF count(keys[k]) > 1
            THEN <<"[">> \o keys[k] \o <<"]", "^">> \o Itoa(count(keys[k])) \o <<"?">>
            ELSE <<"[">> \o keys[k] \o <<"]", "?">>])

UnknownModsKeys(unknownMods) ==
    {ModToProforma(unknownMods[i]) : i \in 1..Len(unknownMods)}

\* the text of a residue with its modifications
ResidueText(aa) ==
    aa.value \o ConcatAll([k \in 1..Len(aa.mods) |->
        IF GetModType(aa.mods[k]) = "ambiguous" /\ ~HasAmbiguity(aa.mods[k])
        THEN <<"{">> \o ModToProforma(aa.mods[k]) \o <<"}">>
        ELSE <<"[">> \o ModToProforma(aa.mods[k]) \o <<"]">>])

Bracketed(mods) ==
    ConcatAll([k \in 1..Len(mods) |-> <<"[">> \o ModToProforma(mods[k]) \o <<"]">>])

\* chainToProforma with the map of the unknown-position modifications
\* ranged over in the order keys.  The global modifications are those of
\* the receiver s, not of the chain.
chainToProforma(s, chain, keys) ==
    ConcatAll([k \in 1..Len(s.globalMods) |-> GlobalModToProforma(s.globalMods[k])])
    \o UnknownModsText(chain.mods[-4], keys)
    \o ConcatAll([k \in 1..Len(chain.mods[-3]) |->
           IF GetModType(chain.mods[-3][k]) = "labile"
           THEN <<"{">> \o ModToProforma(chain.mods[-3][k]) \o <<"}">> ELSE <<>>])
    \o (IF Bracketed(chain.mods[-1]) # <<>>
        THEN Bracketed(chain.mods[-1]) \o <<"-">> ELSE <<>>)
    \o ConcatAll([k \in 1..Len(chain.seq) |-> ResidueText(chain.seq[k])])
    \o (IF Bracketed(chain.mods[-2]) # <<>>
        THEN <<"-">> \o Bracketed(chain.mods[-2]) ELSE <<>>)
    \o (IF chain.charge # None
        THEN <<"/">> \o Itoa(Val(chain.charge))
             \o (IF chain.ionicSpecies # None
                 THEN <<"[">> \o Val(chain.ionicSpecies) \o <<"]">> ELSE <<>>)
        ELSE <<>>)

\* the texts chainToProforma can return for a chain
ChainTexts(s, chain) ==
    {chainToProforma(s, chain, keys) :
        keys \in Orders(UnknownModsKeys(chain.mods[-4]))}

\* the texts of a list of chains joined by sep
RECURSIVE JoinedTexts(_, _, _)
JoinedTexts(s, members, sep) ==
    IF members = <<>> THEN {<<>>}
    ELSE {a \o (IF Len(members) > 1 THEN sep ELSE <<>>) \o b :
              a \in ChainTexts(s, members[1]),
              b \in JoinedTexts(s, Tail(members), sep)}

\* Sequence.ToProforma: the set of texts a call can return
ToProforma(s) ==
    JoinedTexts(s,
        IF s.isMultiChain THEN <<s>> \o s.chains
        ELSE IF s.isChimeric THEN <<s>> \o s.peptidoforms
        ELSE <<s>>,
        IF s.isMultiChain THEN <<"/", "/">> ELSE <<"+">>)

\* ------------------------------------------------------------ the program

\* A run of the library on one input: FromProforma(input), ToProforma of
\* the model (twice), FromProforma of the text, ToProforma of that model.
VARIABLES input, pc, model1, text1, textAgain, model2, text2, callers

vars == <<input, pc, model1, text1, textAgain, model2, text2, callers>>

\* the most tokens an input is made of
MaxTokens == 4

\* the pieces the inputs of the general specification are made of: residues
\* in and outside AAMass, modification blocks, the range and terminal and
\* unknown-position marks, and a closer on its own
Tokens == {<<"K">>, <<"B">>, <<"[", "a", "]">>, <<"{", "b", "}">>, <<"(">>, <<")">>, <<"]">>, <<"-">>, <<"?">>}

RECURSIVE TokenStrings(_, _)
TokenStrings(T, n) ==
    IF n = 0 THEN {<<>>}
    ELSE TokenStrings(T, n - 1) \cup {s \o t : s \in TokenStrings(T, n - 1), t \in T}

Inputs == TokenStrings(Tokens, MaxTokens)

Accepted(m) == m # None /\ ~Val(m).panics /\ Val(m).err = None

\* the threads that call ToProforma on the first model at the same time
NumCallers == 2

Callers == 1..NumCallers

\* a caller outside ToProforma: calls counts the calls it has made, result
\* is what its last call returned
IdleCaller == [at |-> "idle", member |-> 0, acc |-> <<>>, calls |-> 0, result |-> None]

InitWith(S) ==
    /\ input \in S
    /\ callers = [t \in Callers |-> IdleCaller]
    /\ pc = "start"
    /\ model1 = None /\ text1 = None /\ textAgain = None
    /\ model2 = None /\ text2 = None

Init == InitWith(Inputs)

\* the text FromProforma is applied to: the input, and after the first
\* model was serialized the text it gave
Source == IF pc = "start" THEN input ELSE Val(text1)

\* the model ToProforma is applied to: the one made last
Latest == IF pc = "reparsed" THEN model2 ELSE model1

\* the model m kept as the first or the second one
KeepModel(m) ==
    IF pc = "start"
    THEN /\ model1' = m /\ pc' = "parsed" /\ UNCHANGED model2
    ELSE /\ model2' = m /\ pc' = "reparsed" /\ UNCHANGED model1

\* the text t kept as the first, the repeated or the last one
KeepText(t) ==
    IF pc = "parsed"
    THEN /\ text1' = t /\ pc' = "serialized" /\ UNCHANGED <<textAgain, text2>>
    ELSE IF pc = "serialized"
    THEN /\ textAgain' = t /\ pc' = "repeated" /\ UNCHANGED <<text1, text2>>
    ELSE /\ text2' = t /\ pc' = "done" /\ UNCHANGED <<text1, textAgain>>

\* FromProforma called on the input and, later, on the text of the first model
DoFromProforma ==
    /\ pc \in {"start", "repeated"}
    /\ KeepModel(Some(FromProforma(Source)))
    /\ UNCHANGED <<input, text1, textAgain, text2, callers>>

\* ToProforma called on an accepted model: twice on the first one, once on
\* the second
DoToProforma ==
    /\ pc \in {"parsed", "serialized", "reparsed"}
    /\ Accepted(Latest)
    /\ \E t \in ToProforma(Val(Val(Latest).seq)) : KeepText(Some(t))
    /\ UNCHANGED <<input, model1, model2, callers>>

Next ==
    \/ DoFromProforma
    \/ DoToProforma

Spec == Init /\ [][Next]_vars

\* ------------------------------------------------------------- the inputs

\* every concatenation of one element of each set of the list
RECURSIVE Concats(_)
Concats(sets) ==
    IF sets = <<>> THEN {<<>>}
    ELSE {a \o b : a \in Head(sets), b \in Concats(Tail(sets))}

\* the lists of at most n elements of N
RECURSIVE ListsUpTo(_, _)
ListsUpTo(N, n) ==
    IF n = 0 THEN {<<>>}
    ELSE ListsUpTo(N, n - 1) \cup {Append(l, x) : l \in ListsUpTo(N, n - 1), x \in N}

\* Valid ProForma strings: what may stand before the residues (a terminal
\* modification, unknown-position modifications, a labile modification,
\* global modifications, a name), residues with their modifications, and
\* what may follow them (a terminal modification, a charge, a species).
ValidPrefixes ==
    {<<>>, <<"[", "a", "]", "-">>, <<"[", "a", "]", "?">>, <<"[", "a", "]", "[", "b", "]", "?">>, <<"{", "G", "l", "y", "c", "a", "n", ":", "H", "e", "x", "}">>, <<"<", "[", "a", "]", "@", "K", ">">>, <<"<", "1", "5", "N", ">">>, <<"(", ">", "a", ")">>}

ValidBodies ==
    {<<"K">>, <<"K", "[", "a", "]">>, <<"K", "[", "+", "1", "]">>, <<"K", "[", "+", "1", ".", "5", "0", "]">>, <<"K", "{", "a", "}">>, <<"(", "K", "K", ")", "[", "+", "1", "]">>, <<"K", "[", "a", "#", "g", "1", "]", "K", "[", "#", "g", "1", "]">>,
     <<"K", "[", "F", "o", "r", "m", "u", "l", "a", ":", "C", "2", ":", "z", "+", "2", "]">>, <<"K", "[", "a", "|", "+", "1", "]">>}

ValidSuffixes == {<<>>, <<"-", "[", "b", "]">>, <<"/", "2">>, <<"/", "2", "[", "+", "N", "a", "+", "]">>}

ValidInputs == Concats(<<ValidPrefixes, ValidBodies, ValidSuffixes>>)

SpecValid == InitWith(ValidInputs) /\ [][Next]_vars

\* Inputs of the form [n1]..[nk]-BODY-[c1]..[cj]: the names of the
\* modifications of either end, a body with the residues it holds, and the
\* text
MaxTerminalMods == 2

TerminalNames == {<<"a">>, <<"a", "-", "b">>, <<"+", "1">>}

TerminalBodies ==
    {[text |-> <<"K">>, residues |-> <<"K">>], [text |-> <<"K", "K">>, residues |-> <<"K", "K">>],
     [text |-> <<"K", "[", "x", "-", "y", "]", "K">>, residues |-> <<"K", "K">>], [text |-> <<"(", "?", "K", ")", "K">>, residues |-> <<"K">>]}

BlocksText(names) ==
    ConcatAll([k \in 1..Len(names) |-> <<"[">> \o names[k] \o <<"]">>])

TerminalForms ==
    {[n |-> n, c |-> c, residues |-> b.residues,
      text |-> BlocksText(n) \o <<"-">> \o b.text \o <<"-">> \o BlocksText(c)] :
        n \in ListsUpTo(TerminalNames, MaxTerminalMods) \ {<<>>},
        c \in ListsUpTo(TerminalNames, MaxTerminalMods) \ {<<>>},
        b \in TerminalBodies}

TerminalInputs == {f.text : f \in TerminalForms}

SpecTerminal == InitWith(TerminalInputs) /\ [][Next]_vars

\* Inputs that start with <...> blocks: each block with the sub-kind and
\* the targets it is written with ("malformed": a bracketed modification
\* without targets)
MaxGlobalBlocks == 2

GlobalBlocks ==
    {[text |-> <<"<", "[", "a", "]", "@", "K", ">">>, kind |-> "fixed", targets |-> <<<<"K">>>>],
     [text |-> <<"<", "[", "+", "1", "]", "@", "K", ",", "R", ">">>, kind |-> "fixed", targets |-> <<<<"K">>, <<"R">>>>],
     [text |-> <<"<", "1", "5", "N", ">">>, kind |-> "isotope", targets |-> <<>>],
     [text |-> <<"<", "1", "3", "C", ">">>, kind |-> "isotope", targets |-> <<>>],
     [text |-> <<"<", "[", "a", "]", ">">>, kind |-> "malformed", targets |-> <<>>]}

GlobalForms ==
    {[blocks |-> bs,
      text |-> ConcatAll([k \in 1..Len(bs) |-> bs[k].text]) \o body] :
        bs \in ListsUpTo(GlobalBlocks, MaxGlobalBlocks) \ {<<>>},
        body \in {<<"K">>, <<"K", "R">>}}

GlobalInputs == {f.text : f \in GlobalForms}

SpecGlobal == InitWith(GlobalInputs) /\ [][Next]_vars

\* Inputs made of residues and of openers and closers on their own
BracketTokens == {<<"K">>, <<"a">>, <<"[">>, <<"]">>, <<"{">>, <<"}">>, <<"(">>, <<")">>, <<"<">>, <<">">>}

BracketInputs == TokenStrings(BracketTokens, MaxTokens)

SpecBrackets == InitWith(BracketInputs) /\ [][Next]_vars

\* ------------------------------------------------------------- the claims

\* the model a parse produced
Model(m) == Val(Val(m).seq)

\* a modification without its identity
ModView(m) == [f \in DOMAIN m \ {"id"} |-> m[f]]

ModViews(mods) == [k \in 1..Len(mods) |-> ModView(mods[k])]

\* the residues, the modifications of every residue and of every virtual
\* position, the global modifications and the charge of a chain
ChainView(c) ==
    [residues |-> [i \in 1..Len(c.seq) |->
                      [value |-> c.seq[i].value, mods |-> ModViews(c.seq[i].mods)]],
     mods |-> [p \in VirtualPositions |-> ModViews(c.mods[p])],
     globalMods |-> [k \in 1..Len(c.globalMods) |->
                        [c.globalMods[k] EXCEPT !.mod = ModView(@)]],
     charge |-> c.charge]

ModelView(s) ==
    [main |-> ChainView(s),
     chains |-> [k \in 1..Len(s.chains) |-> ChainView(s.chains[k])],
     peptidoforms |-> [k \in 1..Len(s.peptidoforms) |-> ChainView(s.peptidoforms[k])]]

\* the residue symbols of a model, in order
ResidueText1(s) == ConcatAll([i \in 1..Len(s.seq) |-> s.seq[i].value])

\* the identities of the modifications at the virtual positions and at the
\* residues of a model
VirtualIds(s) ==
    UNION {{s.mods[p][k].id : k \in 1..Len(s.mods[p])} : p \in VirtualPositions}

ResidueIds(s) ==
    UNION {{s.seq[i].mods[k].id : k \in 1..Len(s.seq[i].mods)} : i \in 1..Len(s.seq)}

\* whether the opener o and the closer c are balanced in s from index i on,
\* d openers being open
RECURSIVE DepthScan(_, _, _, _, _)
DepthScan(s, i, d, o, c) ==
    IF i > Len(s) THEN d = 0
    ELSE IF s[i] = o THEN DepthScan(s, i + 1, d + 1, o, c)
    ELSE IF s[i] = c THEN d > 0 /\ DepthScan(s, i + 1, d - 1, o, c)
    ELSE DepthScan(s, i + 1, d, o, c)

Unbalanced(s) ==
    \/ \E p \in {<<"[", "]">>, <<"{", "}">>, <<"(", ")">>} : ~DepthScan(s, 1, 0, p[1], p[2])
    \/ HasPrefix(s, <<"<">>) /\ ~ContainsChar(s, ">")

\* C1: the text of an accepted input parses again, to a model equal to the
\* first in its residues, in the modifications of every residue and of every
\* virtual position, in its global modifications and in its charge.
RoundTripModel ==
    model2 # None =>
        /\ Accepted(model2)
        /\ ModelView(Model(model2)) = ModelView(Model(model1))

\* C2: the text of an accepted input parses again, and the model it gives
\* has the same text.
SerializationIdempotent ==
    /\ model2 # None => Accepted(model2)
    /\ text2 # None => text2 = text1

\* C3: the text of the model of an accepted valid input is the input,
\* character for character.
TextRoundTrip == text1 # None => Val(text1) = input

\* C4: a model returned without an error holds every residue of the stripped
\* sequence of the input: no residue is missing.
NoPartialModel ==
    Accepted(model1) => ResidueText1(Model(model1)) = Parse(input).baseSequence

\* C5: an input with unbalanced brackets, braces, parentheses or angle block
\* is rejected.
UnbalancedRejected ==
    model1 # None /\ Unbalanced(input) => ~Accepted(model1)

\* C6: in a model FromProforma made, no modification is both at a virtual
\* position and at a residue.
VirtualPositionIsolation ==
    \A m \in {model1, model2} :
        Accepted(m) => VirtualIds(Model(m)) \cap ResidueIds(Model(m)) = {}

VirtualPositionIsolationWitness ==
    /\ Accepted(model1)
    /\ VirtualIds(Model(model1)) # {}
    /\ ResidueIds(Model(model1)) # {}

\* C7: two calls of ToProforma on the same model return the same text.
SerializationDeterministic == textAgain # None => textAgain = text1

\* C8: the residue at index i of a model reports position i (zero-based).
ZeroBasedPositions ==
    Accepted(model1) =>
        \A i \in 1..Len(Model(model1).seq) : GetPosition(Model(model1), i) = i - 1

\* C9: for an input [n1]..[nk]-BODY-[c1]..[cj] the model holds n1..nk in
\* order at position -1 and c1..cj in order at position -2, each of kind
\* terminal, and the residues of BODY.
TerminalsRecorded ==
    model1 # None =>
        \A f \in TerminalForms : f.text = input =>
            /\ Accepted(model1)
            /\ [k \in 1..Len(Model(model1).mods[-1]) |->
                   ModToProforma(Model(model1).mods[-1][k])] = f.n
            /\ [k \in 1..Len(Model(model1).mods[-2]) |->
                   ModToProforma(Model(model1).mods[-2][k])] = f.c
            /\ \A p \in {-1, -2} : \A k \in 1..Len(Model(model1).mods[p]) :
                   GetModType(Model(model1).mods[p][k]) = "terminal"
            /\ ResidueText1(Model(model1)) = f.residues

\* the targets of a global modification
Targets(gm) == IF gm.targetResidues = None THEN <<>> ELSE Val(gm.targetResidues)

\* C10: every leading <...> block gives one global modification, in order,
\* fixed with its targets or isotope without targets, and a bracketed
\* modification without targets is rejected.
GlobalBlocksRecorded ==
    model1 # None =>
        \A f \in GlobalForms : f.text = input =>
            IF \E k \in 1..Len(f.blocks) : f.blocks[k].kind = "malformed"
            THEN ~Accepted(model1)
            ELSE /\ Accepted(model1)
                 /\ Len(Model(model1).globalMods) = Len(f.blocks)
                 /\ \A k \in 1..Len(f.blocks) :
                        /\ Model(model1).globalMods[k].globalModType = f.blocks[k].kind
                        /\ Targets(Model(model1).globalMods[k]) = f.blocks[k].targets

\* Inputs with a charge suffix: what stands before the residues, a body with
\* the residues it holds (a "/" inside brackets, parentheses or braces is
\* part of a modification), and the suffix with the charge and the species
\* it is written with
ChargePrefixes == {<<>>, <<"[", "a", "]", "-">>, <<"<", "[", "a", "/", "2", "]", "@", "K", ">">>, <<"{", "G", "l", "y", "c", "a", "n", ":", "H", "e", "x", "}">>,
     <<"{", "a", "/", "2", "[", "x", "]", "}">>}

ChargeBodies ==
    {[text |-> <<"K">>, residues |-> <<"K">>],
     [text |-> <<"K", "[", "a", "/", "2", "]", "K">>, residues |-> <<"K", "K">>],
     [text |-> <<"(", "K", "K", ")", "[", "+", "1", "]">>, residues |-> <<"K", "K">>],
     [text |-> <<"K", "-", "[", "b", "]">>, residues |-> <<"K">>],
     [text |-> <<"K", "{", "a", "/", "2", "}">>, residues |-> <<"K">>]}

ChargeTails ==
    {[text |-> <<>>, charge |-> None, species |-> None],
     [text |-> <<"/", "2">>, charge |-> Some(2), species |-> None],
     [text |-> <<"/", "-", "2">>, charge |-> Some(-2), species |-> None],
     [text |-> <<"/", "1", "2">>, charge |-> Some(12), species |-> None],
     [text |-> <<"/", "2", "[", "+", "N", "a", "+", "]">>, charge |-> Some(2), species |-> Some(<<"+", "N", "a", "+">>)],
     [text |-> <<"/", "-", "1", "[", "-", "C", "l", "-", "]">>, charge |-> Some(-1), species |-> Some(<<"-", "C", "l", "-">>)]}

ChargeForms ==
    {[text |-> p \o b.text \o t.text, residues |-> b.residues,
      charge |-> t.charge, species |-> t.species] :
        p \in ChargePrefixes, b \in ChargeBodies, t \in ChargeTails}

ChargeInputs == {f.text : f \in ChargeForms}

SpecCharge == InitWith(ChargeInputs) /\ [][Next]_vars

\* C11: a suffix /n or /-n outside every bracket, with or without a
\* [species], gives the charge n and that species; an input without the
\* suffix gives neither; the residues are those of the body.
ChargeRecorded ==
    model1 # None =>
        \A f \in ChargeForms : f.text = input =>
            /\ Accepted(model1)
            /\ Model(model1).charge = f.charge
            /\ Model(model1).ionicSpecies = f.species
            /\ ResidueText1(Model(model1)) = f.residues

\* Inputs with a bracket block right after a residue X: the residues before
\* and after the X, and the content of the block with the number it spells
\* (None: not a signed decimal) and whether it ends with "#group", group
\* not starting with XL
GapContents ==
    {[text |-> <<"+", "3", "6", "7", ".", "0", "5", "3", "7">>, mass |-> Some([neg |-> FALSE, ip |-> 367, fp |-> <<"0", "5", "3", "7">>]), group |-> FALSE],
     [text |-> <<"-", "1", ".", "5">>, mass |-> Some([neg |-> TRUE, ip |-> 1, fp |-> <<"5">>]), group |-> FALSE],
     [text |-> <<"+", "5">>, mass |-> Some([neg |-> FALSE, ip |-> 5, fp |-> <<>>]), group |-> FALSE],
     [text |-> <<"a">>, mass |-> None, group |-> FALSE],
     [text |-> <<"F", "o", "r", "m", "u", "l", "a", ":", "C", "2">>, mass |-> None, group |-> FALSE],
     [text |-> <<"a", "|", "+", "1">>, mass |-> None, group |-> FALSE],
     [text |-> <<"#", "X", "L", "1">>, mass |-> None, group |-> FALSE],
     [text |-> <<"a", "#", "X", "L", "1">>, mass |-> None, group |-> FALSE],
     [text |-> <<"a", "#", "g", "1">>, mass |-> None, group |-> TRUE],
     [text |-> <<"a", "#", "g", "1", "(", "0", ".", "5", ")">>, mass |-> None, group |-> TRUE]}

GapForms ==
    {[text |-> before \o <<"X", "[">> \o c.text \o <<"]">> \o after,
      residues |-> before \o <<"X">> \o after, index |-> Len(before),
      mass |-> c.mass, group |-> c.group] :
        before \in {<<>>, <<"K">>, <<"K", "K">>}, c \in GapContents, after \in {<<>>, <<"K">>}}

GapInputs == {f.text : f \in GapForms}

SpecGap == InitWith(GapInputs) /\ [][Next]_vars

\* the form f is parsed to its residues, with one modification, at the X,
\* whose mass is the number the block spells if it spells one
GapAttached(f) ==
    /\ Accepted(model1)
    /\ ResidueText1(Model(model1)) = f.residues
    /\ \A i \in 1..Len(Model(model1).seq) :
           Len(Model(model1).seq[i].mods) = (IF i = f.index + 1 THEN 1 ELSE 0)
    /\ f.mass # None => Model(model1).seq[f.index + 1].mods[1].mass = Val(f.mass)

\* C12 as stated: the block after a residue X is attached at the index of
\* the X as a modification of kind gap, the X stays a residue, and the mass
\* is the signed decimal the block spells.
GapRecorded ==
    model1 # None =>
        \A f \in GapForms : f.text = input =>
            /\ GapAttached(f)
            /\ GetModType(Model(model1).seq[f.index + 1].mods[1]) = "gap"

\* C12: as GapRecorded, but a block that ends with "#group", group not
\* starting with XL, is of kind ambiguous and every other block of kind gap.
GapRecordedUnlessGrouped ==
    model1 # None =>
        \A f \in GapForms : f.text = input =>
            /\ GapAttached(f)
            /\ GetModType(Model(model1).seq[f.index + 1].mods[1])
                   = (IF f.group THEN "ambiguous" ELSE "gap")

GapRecordedWitness ==
    /\ Accepted(model1)
    /\ \E f \in GapForms :
           /\ f.text = input /\ f.mass # None /\ f.index > 0
           /\ GetModType(Model(model1).seq[f.index + 1].mods[1]) = "gap"

\* Inputs with an unknown-position prefix: the blocks before the "?", each
\* with its name, the "^n" it is written with and the number of entries it
\* stands for, and a body with the residues it holds
MaxUnknownBlocks == 2

UnknownBlocks ==
    {[name |-> name, text |-> <<"[">> \o name \o <<"]">> \o c.text, n |-> c.n] :
        name \in {<<"a">>, <<"b">>, <<"+", "1">>},
        c \in {[text |-> <<>>, n |-> 1], [text |-> <<"^", "2">>, n |-> 2],
               [text |-> <<"^", "3">>, n |-> 3]}}

UnknownBodies ==
    {[text |-> <<"K", "R">>, residues |-> <<"K", "R">>],
     [text |-> <<"K", "[", "b", "]", "K">>, residues |-> <<"K", "K">>]}

UnknownForms ==
    {[text |-> ConcatAll([k \in 1..Len(bs) |-> bs[k].text]) \o <<"?">> \o body.text,
      entries |-> ConcatAll([k \in 1..Len(bs) |-> [c \in 1..bs[k].n |-> bs[k].name]]),
      residues |-> body.residues] :
        bs \in ListsUpTo(UnknownBlocks, MaxUnknownBlocks) \ {<<>>},
        body \in UnknownBodies}

UnknownInputs == {f.text : f \in UnknownForms}

SpecUnknown == InitWith(UnknownInputs) /\ [][Next]_vars

\* C13: the blocks before the "?" are recorded at virtual position -4, in
\* order, n identical entries for a block [mod]^n and one for a block
\* without ^n, and the residues are those of the body.
UnknownPositionRecorded ==
    model1 # None =>
        \A f \in UnknownForms : f.text = input =>
            /\ Accepted(model1)
            /\ [k \in 1..Len(Model(model1).mods[-4]) |->
                   ModToProforma(Model(model1).mods[-4][k])] = f.entries
            /\ \A k, l \in 1..Len(f.entries) :
                   f.entries[k] = f.entries[l] =>
                       ModView(Model(model1).mods[-4][k]) = ModView(Model(model1).mods[-4][l])
            /\ ResidueText1(Model(model1)) = f.residues

UnknownPositionRecordedWitness ==
    /\ Accepted(model1)
    /\ input = <<"[", "a", "]", "^", "3", "[", "b", "]", "^", "2", "?", "K", "R">>
    /\ Len(Model(model1).mods[-4]) = 5

\* Inputs with a range followed by a bracket block: the text before the
\* range, the range, the content of the block and the text after it, with
\* the residues of each part
RangeParts ==
    [before |-> {[text |-> <<>>, residues |-> <<>>], [text |-> <<"K">>, residues |-> <<"K">>],
                 [text |-> <<"K", "[", "a", "]", "R">>, residues |-> <<"K", "R">>]},
     inside |-> {[text |-> <<"K">>, residues |-> <<"K">>], [text |-> <<"K", "R">>, residues |-> <<"K", "R">>],
                 [text |-> <<"K", "[", "b", "]", "R">>, residues |-> <<"K", "R">>],
                 [text |-> <<"K", "(", "R", "K", ")">>, residues |-> <<"K", "R", "K">>]},
     content |-> {<<"+", "1">>, <<"a">>, <<"a", "#", "g", "1">>, <<"F", "o", "r", "m", "u", "l", "a", ":", "C", "2">>},
     after |-> {[text |-> <<>>, residues |-> <<>>], [text |-> <<"K">>, residues |-> <<"K">>]}]

RangeForms ==
    {[text |-> b.text \o <<"(">> \o i.text \o <<")", "[">> \o c \o <<"]">> \o a.text,
      residues |-> b.residues \o i.residues \o a.residues,
      rangeStart |-> Len(b.residues),
      rangeEnd |-> Len(b.residues) + Len(i.residues) - 1] :
        b \in RangeParts.before, i \in RangeParts.inside,
        c \in RangeParts.content, a \in RangeParts.after}

RangeInputs == {f.text : f \in RangeForms}

SpecRange == InitWith(RangeInputs) /\ [][Next]_vars

\* the range-flagged modifications of the residue at index i (from 0) of s
RangeModsAt(s, i) ==
    SelectSeq(s.seq[i + 1].mods, LAMBDA m : m.inRange)

\* C14: the block after a range gives one modification, flagged as in range,
\* of kind ambiguous and with the bounds of the range, attached to each
\* residue of the range and to no other residue.
RangeAttached ==
    model1 # None =>
        \A f \in RangeForms : f.text = input =>
            /\ Accepted(model1)
            /\ ResidueText1(Model(model1)) = f.residues
            /\ \A i \in 0..(Len(f.residues) - 1) :
                   IF f.rangeStart <= i /\ i <= f.rangeEnd
                   THEN /\ Len(RangeModsAt(Model(model1), i)) = 1
                        /\ RangeModsAt(Model(model1), i)
                               = RangeModsAt(Model(model1), f.rangeStart)
                        /\ GetModType(RangeModsAt(Model(model1), i)[1]) = "ambiguous"
                        /\ RangeModsAt(Model(model1), i)[1].rangeStart = Some(f.rangeStart)
                        /\ RangeModsAt(Model(model1), i)[1].rangeEnd = Some(f.rangeEnd)
                   ELSE RangeModsAt(Model(model1), i) = <<>>

RangeAttachedWitness ==
    /\ Accepted(model1)
    /\ input = <<"K", "[", "a", "]", "R", "(", "K", "[", "b", "]", "R", ")", "[", "+", "1", "]", "K">>
    /\ Len(RangeModsAt(Model(model1), 3)) = 1

\* Inputs with one modification written in each context: on a residue in
\* brackets or braces, at a terminus, as a labile or unknown-position block
\* or after a range; content is the text of the modification
CrosslinkContents == {<<"a", "#", "X", "L", "1">>, <<"#", "X", "L", "1">>, <<"+", "1", "#", "X", "L", "1">>, <<"a", "|", "b", "#", "X", "L", "2">>, <<"a">>}

CrosslinkContexts(c) ==
    {<<"K", "[">> \o c \o <<"]">>, <<"K", "{">> \o c \o <<"}">>, <<"[">> \o c \o <<"]", "-", "K">>,
     <<"K", "-", "[">> \o c \o <<"]">>, <<"{">> \o c \o <<"}", "K">>, <<"[">> \o c \o <<"]", "?", "K">>,
     <<"(", "K", "R", ")", "[">> \o c \o <<"]">>}

CrosslinkInputs ==
    UNION {{t \o after : t \in CrosslinkContexts(c), after \in {<<>>, <<"R">>}} :
               c \in CrosslinkContents}

SpecCrosslink == InitWith(CrosslinkInputs) /\ [][Next]_vars

\* the modifications of s: those of its residues and of its virtual positions
AllMods(s) ==
    UNION ({{s.seq[i].mods[k] : k \in 1..Len(s.seq[i].mods)} : i \in 1..Len(s.seq)}
           \cup {{s.mods[p][k] : k \in 1..Len(s.mods[p])} : p \in VirtualPositions})

\* C15: a modification that has a crosslink id or is a crosslink reference
\* is of kind crosslink, whatever the context it was written in.
CrosslinkKind ==
    Accepted(model1) =>
        \A m \in AllMods(Model(model1)) :
            GetCrosslinkID(m) # None \/ IsCrosslinkRef(m)
                => GetModType(m) = "crosslink"

\* Residue modifications written name#group or name#group(score): the name,
\* the group and the score written (None: no score)
AmbiguityNames == {<<"a">>, <<"U", ":", "a">>, <<"F", "o", "r", "m", "u", "l", "a", ":", "C", "2">>}

AmbiguityGroups == {<<"g", "1">>, <<"1">>, <<"B">>}

AmbiguityScores ==
    {[text |-> <<>>, score |-> None],
     [text |-> <<"(", "0", ".", "5", ")">>, score |-> Some([neg |-> FALSE, ip |-> 0, fp |-> <<"5">>])],
     [text |-> <<"(", "0", ".", "7", "5", ")">>, score |-> Some([neg |-> FALSE, ip |-> 0, fp |-> <<"7", "5">>])],
     [text |-> <<"(", "1", ")">>, score |-> Some([neg |-> FALSE, ip |-> 1, fp |-> <<>>])]}

AmbiguityForms ==
    {[text |-> before \o <<"K", "[">> \o n \o <<"#">> \o g \o sc.text \o <<"]">> \o after,
      index |-> Len(before), group |-> g, score |-> sc.score] :
        before \in {<<>>, <<"R">>}, n \in AmbiguityNames, g \in AmbiguityGroups,
        sc \in AmbiguityScores, after \in {<<>>, <<"R">>}}

AmbiguityInputs == {f.text : f \in AmbiguityForms}

SpecAmbiguity == InitWith(AmbiguityInputs) /\ [][Next]_vars

\* the modification m is of kind ambiguous with the group and the score
AmbiguityOf(m, group, score) ==
    /\ GetModType(m) = "ambiguous"
    /\ GetAmbiguityGroup(m) = Some(group)
    /\ m.localizationScore = score

\* C16: a residue modification name#group or name#group(score), the group
\* being neither BRANCH nor starting with XL, is of kind ambiguous, its
\* ambiguity group is the group written and its localization score is the
\* score written, or absent when none is written.
AmbiguityRecorded ==
    model1 # None =>
        \A f \in AmbiguityForms : f.text = input =>
            /\ Accepted(model1)
            /\ Len(Model(model1).seq[f.index + 1].mods) = 1
            /\ AmbiguityOf(Model(model1).seq[f.index + 1].mods[1], f.group, f.score)

MaxLabileBlocks == 2

\* The contents of labile blocks: text is the content as written and group
\* says whether it ends with a "#" tag naming a group that is not a crosslink
LabileContents ==
    {[text |-> <<"G", "l", "y", "c", "a", "n", ":", "H", "e", "x">>, group |-> FALSE], [text |-> <<"a">>, group |-> FALSE],
     [text |-> <<"+", "1">>, group |-> FALSE], [text |-> <<"-", "1", ".", "5">>, group |-> FALSE],
     [text |-> <<"U", ":", "a", "|", "b">>, group |-> FALSE], [text |-> <<"a", "#", "g", "1">>, group |-> TRUE],
     [text |-> <<"a", "#", "B", "R", "A", "N", "C", "H">>, group |-> TRUE]}

\* Inputs with labile blocks before the sequence, after the prefixes of
\* global modifications and of modifications of unknown position
LabilePrefixes == {<<>>, <<"<", "1", "3", "C", ">">>, <<"<", "[", "a", "]", "@", "K", ">">>, <<"[", "a", "]", "?">>, <<"<", "1", "3", "C", ">", "[", "a", "]", "^", "2", "?">>}

LabileBodies ==
    {[text |-> <<"K">>, residues |-> <<"K">>], [text |-> <<"K", "[", "b", "]", "R">>, residues |-> <<"K", "R">>],
     [text |-> <<"[", "b", "]", "-", "K", "R">>, residues |-> <<"K", "R">>]}

LabileForms ==
    {[text |-> p \o ConcatAll([k \in 1..Len(bs) |-> <<"{">> \o bs[k].text \o <<"}">>]) \o b.text,
      blocks |-> bs, residues |-> b.residues] :
        p \in LabilePrefixes, b \in LabileBodies,
        bs \in ListsUpTo(LabileContents, MaxLabileBlocks) \ {<<>>}}

LabileInputs == {f.text : f \in LabileForms}

SpecLabile == InitWith(LabileInputs) /\ [][Next]_vars

\* the modifications at -3 of s are those of the blocks, one each and in
\* order, of the kind Kind gives for the block, and s has the residues
LabileAt(s, f, Kind(_)) ==
    /\ Len(s.mods[-3]) = Len(f.blocks)
    /\ \A k \in 1..Len(f.blocks) : GetModType(s.mods[-3][k]) = Kind(f.blocks[k])
    /\ \A k \in 1..Len(f.blocks) :
           ~f.blocks[k].group => /\ ModToProforma(s.mods[-3][k]) = f.blocks[k].text
                                 /\ s.mods[-3][k].labile
    /\ ResidueText1(s) = f.residues

MaxChains == 3

\* The pieces of multi-chain inputs: chains with and without "//" inside a
\* bracketed modification, with their residues
ChainPieces ==
    {[text |-> <<"K">>, residues |-> <<"K">>], [text |-> <<"[", "a", "]", "-", "K", "[", "b", "]", "R">>, residues |-> <<"K", "R">>],
     [text |-> <<"R", "/", "2">>, residues |-> <<"R">>],
     [text |-> <<"K", "[", "a", "/", "/", "b", "]">>, residues |-> <<"K">>],
     [text |-> <<"K", "{", "I", "N", "F", "O", ":", "a", "/", "/", "b", "}", "R">>, residues |-> <<"K", "R">>]}

ChainForms ==
    {[text |-> Join([k \in 1..Len(ps) |-> ps[k].text], <<"/", "/">>), pieces |-> ps] :
        ps \in ListsUpTo(ChainPieces, MaxChains) \ {<<>>}}

ChainInputs == {f.text : f \in ChainForms}

SpecChains == InitWith(ChainInputs) /\ [][Next]_vars

\* the chains of the model s in input order: s itself, then those it holds
ChainsOf(s) == <<s>> \o s.chains

\* C18: the input is split into chains at each "//" outside brackets and at
\* no other place: the model has one chain for each piece, in input order,
\* each being what the piece alone is parsed to; a "//" inside a bracketed
\* modification does not split.
ChainsSplit ==
    model1 # None =>
        \A f \in ChainForms : f.text = input =>
            /\ Accepted(model1)
            /\ Len(ChainsOf(Model(model1))) = Len(f.pieces)
            /\ Model(model1).isMultiChain = (Len(f.pieces) > 1)
            /\ \A k \in 1..Len(f.pieces) :
                   /\ ResidueText1(ChainsOf(Model(model1))[k]) = f.pieces[k].residues
                   /\ ChainView(ChainsOf(Model(model1))[k])
                          = ChainView(Val(FromProforma(f.pieces[k].text).seq))

MaxPeptidoforms == 3

\* The pieces of chimeric inputs: peptidoforms with a "+" inside brackets,
\* braces, the block after a range, an ionic species and a global
\* modification, with their residues
PeptidoformPieces ==
    {[text |-> <<"K">>, residues |-> <<"K">>], [text |-> <<"K", "[", "+", "1", "]", "R">>, residues |-> <<"K", "R">>],
     [text |-> <<"[", "+", "1", "]", "-", "K", "{", "a", "+", "b", "}">>, residues |-> <<"K">>],
     [text |-> <<"(", "K", "R", ")", "[", "+", "1", "]">>, residues |-> <<"K", "R">>],
     [text |-> <<"R", "/", "2", "[", "+", "N", "a", "+", "]">>, residues |-> <<"R">>],
     [text |-> <<"<", "[", "+", "1", "]", "@", "K", ">", "K">>, residues |-> <<"K">>],
     [text |-> <<"<", "+", "1", "@", "K", ">", "K">>, residues |-> <<"K">>]}

PeptidoformForms ==
    {[text |-> Join([k \in 1..Len(ps) |-> ps[k].text], <<"+">>), pieces |-> ps] :
        ps \in ListsUpTo(PeptidoformPieces, MaxPeptidoforms) \ {<<>>}}

PeptidoformInputs == {f.text : f \in PeptidoformForms}

SpecChimeric == InitWith(PeptidoformInputs) /\ [][Next]_vars

\* the peptidoforms of the model s in input order: s itself, then those it
\* holds
PeptidoformsOf(s) == <<s>> \o s.peptidoforms

\* C19: the input is split into peptidoforms at each "+" outside every
\* bracketing construct and at no other place: the model has one peptidoform
\* for each piece, in input order; a "+" inside [..], {..}, (..) or a global
\* modification <..> does not split.
PeptidoformsSplit ==
    model1 # None =>
        \A f \in PeptidoformForms : f.text = input =>
            /\ Accepted(model1)
            /\ Len(PeptidoformsOf(Model(model1))) = Len(f.pieces)
            /\ \A k \in 1..Len(f.pieces) :
                   /\ ResidueText1(PeptidoformsOf(Model(model1))[k]) = f.pieces[k].residues
                   /\ ChainView(PeptidoformsOf(Model(model1))[k])
                          = ChainView(Val(FromSingle(f.pieces[k].text).seq))

\* The placement control tags as written, each with its place in the order
\* of the serialized text (1: Position, 2: Limit, 3: CoMKP, 4: CoMUP)
PlacementTags ==
    {[text |-> <<"P", "o", "s", "i", "t", "i", "o", "n", ":", "S", ",", "T">>, rank |-> 1], [text |-> <<"L", "i", "m", "i", "t", ":", "2">>, rank |-> 2],
     [text |-> <<"C", "o", "M", "K", "P">>, rank |-> 3],
     [text |-> <<"C", "o", "M", "U", "P">>, rank |-> 4]}

\* the text written for the tag of a rank
PlacementText(rank) ==
    CASE rank = 1 -> <<"P", "o", "s", "i", "t", "i", "o", "n", ":", "S", ",", "T">> [] rank = 2 -> <<"L", "i", "m", "i", "t", ":", "2">>
      [] rank = 3 -> <<"C", "o", "M", "K", "P">> [] rank = 4 -> <<"C", "o", "M", "U", "P">>

\* the tags of a block in every order they can be written in, at most one
\* tag of each rank
PlacementTagLists ==
    UNION {Orders(T) : T \in {U \in SUBSET PlacementTags :
                                  \A a, b \in U : a.rank = b.rank => a = b}}

\* The values of the modification of a block: as written, and the texts of
\* its pipe values
PlacementValues ==
    {[text |-> <<"a">>, parts |-> <<<<"a">>>>], [text |-> <<"U", ":", "a">>, parts |-> <<<<"U", ":", "a">>>>],
     [text |-> <<"a", "#", "g", "1", "(", "0", ".", "5", ")">>, parts |-> <<<<"a">>, <<"#", "g", "1", "(", "0", ".", "5", "0", ")">>>>]}

\* Inputs with one fixed global modification that has placement control
\* tags: ranks is the set of the ranks of its tags
PlacementForms ==
    {[text |-> <<"<", "[">> \o Join(<<v.text>> \o [k \in 1..Len(ts) |-> ts[k].text], <<"|">>)
                  \o <<"]", "@", "K", ">">> \o body,
      body |-> body, parts |-> v.parts,
      ranks |-> {ts[k].rank : k \in 1..Len(ts)}] :
        v \in PlacementValues, ts \in PlacementTagLists, body \in {<<"K">>, <<"K", "R">>}}

PlacementInputs == {f.text : f \in PlacementForms}

SpecPlacement == InitWith(PlacementInputs) /\ [][Next]_vars

\* the text of a modification with the pipe values parts and the tags ranks
PlacedText(parts, ranks) ==
    Join(parts \o ConcatAll([r \in 1..4 |-> IF r \in ranks THEN <<PlacementText(r)>>
                                             ELSE <<>>]), <<"|">>)

\* C20: the text of a modification has its placement control tags after all
\* its pipe values, joined with "|", in the order Position, Limit, CoMKP,
\* CoMUP, each tag being there exactly when its field is set.
PlacementTagsLast ==
    model1 # None =>
        \A f \in PlacementForms : f.text = input =>
            /\ Accepted(model1)
            /\ Len(Model(model1).globalMods) = 1
            /\ LET m == Model(model1).globalMods[1].mod
               IN  /\ (Len(m.positionConstraint) > 0) = (1 \in f.ranks)
                   /\ (m.limitPerPosition # None) = (2 \in f.ranks)
                   /\ m.colocalizeKnown = (3 \in f.ranks)
                   /\ m.colocalizeUnknown = (4 \in f.ranks)
                   /\ ModToProforma(m) = PlacedText(f.parts, f.ranks)
            /\ text1 # None =>
                   Val(text1) = <<"<", "[">> \o PlacedText(f.parts, f.ranks) \o <<"]", "@", "K", ">">> \o f.body

PlacementTagsLastWitness ==
    /\ input = <<"<", "[", "a", "#", "g", "1", "(", "0", ".", "5", ")", "|", "C", "o", "M", "U", "P", "|", "C", "o", "M", "K", "P", "|", "L", "i", "m", "i", "t", ":", "2", "|", "P", "o", "s", "i", "t", "i", "o", "n", ":", "S", ",", "T", "]", "@", "K", ">", "K", "R">>
    /\ text1 = Some(<<"<", "[", "a", "|", "#", "g", "1", "(", "0", ".", "5", "0", ")", "|", "P", "o", "s", "i", "t", "i", "o", "n", ":", "S", ",", "T", "|", "L", "i", "m", "i", "t", ":", "2", "|", "C", "o", "M", "K", "P", "|", "C", "o", "M", "U", "P", "]", "@", "K", ">", "K", "R">>)

\* The texts of modifications with the ion-type flag each is to have: names
\* that end with "-type-ion" in either case, Unimod references with and
\* without one of the ids of the ion types, and others
IonContents ==
    {[text |-> <<"a">>, ion |-> FALSE], [text |-> <<"b", "-", "t", "y", "p", "e", "-", "i", "o", "n">>, ion |-> TRUE],
     [text |-> <<"B", "-", "T", "y", "p", "e", "-", "I", "O", "N">>, ion |-> TRUE], [text |-> <<"b", "-", "t", "y", "p", "e", "-", "i", "o", "n", "s">>, ion |-> FALSE],
     [text |-> <<"U", ":", "4">>, ion |-> TRUE], [text |-> <<"U", "N", "I", "M", "O", "D", ":", "1", "4", "0">>, ion |-> TRUE],
     [text |-> <<"U", ":", "2", "1", "3", "3">>, ion |-> TRUE], [text |-> <<"U", ":", "5">>, ion |-> FALSE],
     [text |-> <<"U", "N", "I", "M", "O", "D", ":", "1", "4", "0", "0">>, ion |-> FALSE], [text |-> <<"+", "1">>, ion |-> FALSE]}

\* the inputs with the modification c of IonContents, one for each place
IonPlaces(c) ==
    CrosslinkContexts(c.text) \cup {<<"<", "[">> \o c.text \o <<"]", "@", "K", ">", "K">>}

\* Inputs with one modification of each text in each place the parser
\* builds a modification from: the residue body, the termini, the labile and
\* unknown-position blocks, a range and a global modification
IonForms ==
    UNION {{[text |-> t, ion |-> c.ion] : t \in IonPlaces(c)} : c \in IonContents}

IonInputs == {f.text : f \in IonForms}

SpecIon == InitWith(IonInputs) /\ [][Next]_vars

\* the modifications of the global modifications of s
GlobalModsOf(s) == {s.globalMods[k].mod : k \in 1..Len(s.globalMods)}

\* Modification.IsIonType
IsIonType(m) == m.isIonType

\* C21: every modification the parser builds has the ion-type flag exactly
\* when its text ends with "-type-ion", in either case, or is a Unimod
\* reference (UNIMOD: or U:) to one of the ids 140, 2132, 4, 24, 2133, 23.
IonTypeFlag ==
    model1 # None =>
        \A f \in IonForms : f.text = input =>
            /\ Accepted(model1)
            /\ AllMods(Model(model1)) \cup GlobalModsOf(Model(model1)) # {}
            /\ \A m \in AllMods(Model(model1)) \cup GlobalModsOf(Model(model1)) :
                   IsIonType(m) = f.ion

MaxFormulaLen == 4

\* The characters formulas are made of here: an element letter, a lowercase
\* letter, a digit, the sign, the brackets of an isotope and a character
\* that no token holds
FormulaChars == {<<"C">>, <<"l">>, <<"2">>, <<"-">>, <<"[">>, <<"]">>, <<"*">>}

\* the formulas: every string of at most MaxFormulaLen characters, every
\* shorter string in the brackets of an isotope, and strings of spaces
FormulaTexts ==
    (TokenStrings(FormulaChars, MaxFormulaLen) \ {<<>>})
        \cup {<<"[">> \o f \o <<"]">> : f \in TokenStrings(FormulaChars, MaxFormulaLen - 1)}
        \cup {<<" ">>, <<" ", " ">>}

\* Inputs whose labile block has the formula f as its content
FormulaInput(f) == <<"{", "F", "o", "r", "m", "u", "l", "a", ":">> \o f \o <<"}", "K">>

FormulaInputs == {FormulaInput(f) : f \in FormulaTexts}

SpecFormula == InitWith(FormulaInputs) /\ [][Next]_vars

\* the offsets at which an optional signed count that starts at offset e of
\* s can end: no count, digits, or "-" and digits
CountEnds(s, e) ==
    {e} \cup {e + k : k \in 1..RunLen(s, e, Digits)}
        \cup (IF e < Len(s) /\ At(s, e) = "-"
              THEN {e + 1 + k : k \in 1..RunLen(s, e + 1, Digits)} ELSE {})

\* the offsets at which an element token that starts at offset i of s can
\* end: an uppercase letter, an optional lowercase letter, an optional
\* signed count
ElementEnds(s, i) ==
    IF i < Len(s) /\ IsUpper(At(s, i))
    THEN CountEnds(s, i + 1)
         \cup (IF i + 1 < Len(s) /\ IsLower(At(s, i + 1))
               THEN CountEnds(s, i + 2) ELSE {})
    ELSE {}

\* the offsets at which an isotope token that starts at offset i of s can
\* end: "[", digits, an element with its optional signed count, "]", an
\* optional count
IsotopeEnds(s, i) ==
    IF i < Len(s) /\ At(s, i) = "["
    THEN UNION {UNION {{e + 1 + k : k \in 0..RunLen(s, e + 1, Digits)} :
                          e \in {x \in ElementEnds(s, i + 1 + d) :
                                     x < Len(s) /\ At(s, x) = "]"}} :
                   d \in 1..RunLen(s, i + 1, Digits)}
    ELSE {}

\* s from offset i on is made of element tokens and isotope tokens only
RECURSIVE TokensFrom(_, _)
TokensFrom(s, i) ==
    \/ i = Len(s)
    \/ \E e \in ElementEnds(s, i) \cup IsotopeEnds(s, i) : TokensFrom(s, e)

\* the pipe values of the labile modification of s
LabilePipeValues(s) == s.mods[-3][1].modValue.pipeValues

\* C23: the formula validator accepts a text exactly when it is made of
\* element tokens (an uppercase letter, an optional lowercase letter, an
\* optional signed count) and of isotope tokens ("[", digits, an element, an
\* optional signed count, "]", an optional count) only; a text of spaces
\* only, or with any other character or an unclosed bracket, is rejected.
FormulaValidated ==
    model1 # None =>
        \A f \in FormulaTexts : FormulaInput(f) = input =>
            /\ Accepted(model1)
            /\ Len(LabilePipeValues(Model(model1))) = 1
            /\ LabilePipeValues(Model(model1))[1].isValidFormula
                   = (RemoveSpaces(f) # <<>> /\ TokensFrom(f, 0))

MaxGlycanTokens == 2

\* The monosaccharides glycans are made of here: known names, custom ones
\* with a formula that is valid and one that is not, and an unknown name;
\* known says whether the token is one the validator is to take
GlycanNames ==
    {[text |-> <<"H", "e", "x">>, known |-> TRUE], [text |-> <<"H", "e", "x", "N", "A", "c">>, known |-> TRUE],
     [text |-> <<"{", "C", "2", "H", "3", "}">>, known |-> TRUE], [text |-> <<"{", "c", "}">>, known |-> FALSE],
     [text |-> <<"H", "x">>, known |-> FALSE]}

\* the counts: none, N and (N), and counts of zero; good says whether the
\* count is one of N >= 1
GlycanCounts ==
    {[text |-> <<>>, written |-> FALSE, good |-> TRUE],
     [text |-> <<"2">>, written |-> TRUE, good |-> TRUE],
     [text |-> <<"(", "1", "2", ")">>, written |-> TRUE, good |-> TRUE],
     [text |-> <<"0">>, written |-> TRUE, good |-> FALSE]}

\* every name with no count and with the count 2; the two names of the
\* built-in table with the count 0 as well, and Hex with the count (12)
GlycanTokens ==
    {t \in {[name |-> n, count |-> c] : n \in GlycanNames, c \in GlycanCounts} :
        \/ ~t.count.written
        \/ t.count.text = <<"2">>
        \/ t.count.text = <<"0">> /\ t.name.text[1] = "H" /\ t.name.known
        \/ t.name.text = <<"H", "e", "x">>}

\* Inputs whose first residue has the glycan made of the tokens of a list
GlycanForms ==
    {[text |-> <<"N", "[", "G", "l", "y", "c", "a", "n", ":">> \o ConcatAll([k \in 1..Len(ts) |-> ts[k].name.text \o ts[k].count.text])
                  \o <<"]", "K">>,
      tokens |-> ts] :
        ts \in ListsUpTo(GlycanTokens, MaxGlycanTokens) \ {<<>>}}

GlycanInputs == {f.text : f \in GlycanForms}

SpecGlycan == InitWith(GlycanInputs) /\ [][Next]_vars

\* the tokens ts make a glycan: each is a known monosaccharide or a custom
\* one with a valid formula, each count is N or (N) with N >= 1, and only
\* the last token may go without a count
GlycanWellFormed(ts) ==
    \A k \in 1..Len(ts) :
        /\ ts[k].name.known
        /\ ts[k].count.good
        /\ ts[k].count.written \/ k = Len(ts)

MaxGapLen == 4

\* Sequences of residues and bare "-" that start and end with a residue,
\* and the example of the README
BareGapInputs ==
    {s \in TokenStrings({<<"K">>, <<"E">>, <<"-">>}, MaxGapLen) :
        s # <<>> /\ s[1] # "-" /\ s[Len(s)] # "-"}
    \cup {<<"P", "E", "P", "-", "T", "I", "D", "E">>}

SpecGaps == InitWith(BareGapInputs) /\ [][Next]_vars

\* Sequence.Gaps
Gaps(s) == [i \in 1..Len(s.seq) |-> s.seq[i].value = <<"-">>]

\* C24: a sequence with bare "-" between residues is accepted, every
\* character of it is a residue, and Gaps() has one entry per character,
\* true exactly where the character is "-".
GapsPerCharacter ==
    model1 # None =>
        /\ Accepted(model1)
        /\ Len(Model(model1).seq) = Len(input)
        /\ \A i \in 1..Len(input) : Model(model1).seq[i].value = <<input[i]>>
        /\ Gaps(Model(model1)) = [i \in 1..Len(input) |-> input[i] = "-"]

\* ---- concurrent callers of ToProforma ----

\* the most calls of ToProforma a caller makes
MaxCalls == 2

\* Accepted inputs with modifications at residues and at every virtual
\* position, global modifications, a charge, chains and peptidoforms
ConcurrentInputs ==
    {<<"K">>, <<"[", "a", "]", "-", "K", "[", "b", "]", "K", "-", "[", "c", "]">>, <<"<", "[", "a", "]", "@", "K", ">", "K">>, <<"K", "/", "2">>, <<"K", "/", "/", "R">>, <<"K", "+", "R">>, <<"[", "a", "]", "?", "K">>,
     <<"{", "G", "l", "y", "c", "a", "n", ":", "H", "e", "x", "}", "K">>, <<"<", "[", "a", "]", "@", "K", ">", "K", "/", "/", "R">>, <<"K", "[", "a", "|", "+", "1", "]", "R">>, <<"<", "[", "a", "]", "@", "K", ">", "K", "[", "b", "]", "+", "R", "/", "2">>, <<"K", "/", "/", "R", "/", "/", "K", "[", "a", "]">>}

\* the sequences ToProforma serializes one after the other, and what it
\* joins their texts with
ToProformaMembers(s) ==
    IF s.isMultiChain THEN <<s>> \o s.chains
    ELSE IF s.isChimeric THEN <<s>> \o s.peptidoforms
    ELSE <<s>>

ToProformaSeparator(s) == IF s.isMultiChain THEN <<"/", "/">> ELSE <<"+">>

\* chainToProforma that takes the global modifications out of the receiver
\* as it writes them
chainToProformaTaking(s, chain) ==
    {[text |-> x, receiver |-> [s EXCEPT !.globalMods = <<>>]] : x \in ChainTexts(s, chain)}

\* what a call of chainToProforma can give: the text it returns and the
\* receiver as the call leaves it.  The method assigns to local variables
\* only.
chainToProformaCall(s, chain) ==
    {[text |-> x, receiver |-> s] : x \in ChainTexts(s, chain)}

\* a caller enters ToProforma on the first model
CallToProforma(t) ==
    /\ Accepted(model1)
    /\ callers[t].at = "idle"
    /\ callers[t].calls < MaxCalls
    /\ callers' = [callers EXCEPT ![t] = [@ EXCEPT !.at = "running", !.member = 1, !.acc = <<>>]]
    /\ UNCHANGED <<input, pc, model1, text1, textAgain, model2, text2>>

\* a caller inside ToProforma serializes the next chain or peptidoform
StepToProforma(t) ==
    /\ callers[t].at = "running"
    /\ callers[t].member <= Len(ToProformaMembers(Model(model1)))
    /\ \E o \in chainToProformaCall(Model(model1), ToProformaMembers(Model(model1))[callers[t].member]) :
           /\ callers' = [callers EXCEPT ![t] =
                  [@ EXCEPT !.member = @ + 1,
                            !.acc = @ \o (IF callers[t].member > 1
                                          THEN ToProformaSeparator(Model(model1)) ELSE <<>>)
                                      \o o.text]]
           /\ model1' = Some([Val(model1) EXCEPT !.seq = Some(o.receiver)])
    /\ UNCHANGED <<input, pc, text1, textAgain, model2, text2>>

\* a caller leaves ToProforma with the joined text
ReturnToProforma(t) ==
    /\ callers[t].at = "running"
    /\ callers[t].member > Len(ToProformaMembers(Model(model1)))
    /\ callers' = [callers EXCEPT ![t] =
           [@ EXCEPT !.at = "idle", !.calls = @ + 1, !.result = Some(callers[t].acc)]]
    /\ UNCHANGED <<input, pc, model1, text1, textAgain, model2, text2>>

NextConcurrent ==
    \/ DoFromProforma
    \/ \E t \in Callers : CallToProforma(t)
    \/ \E t \in Callers : StepToProforma(t)
    \/ \E t \in Callers : ReturnToProforma(t)

SpecConcurrent == InitWith(ConcurrentInputs) /\ [][NextConcurrent]_vars

MaxPipeSegments == 2

\* segments without a source, with a source, and with a "#" suffix
PipeSegments == {<<"a">>, <<"+", "1">>, <<"U", ":", "a">>, <<"U", ":", "b", "#", "g", "1">>, <<"b", "#", "g", "1">>, <<"#", "g", "1">>, <<"M", "O", "D", ":", "c", "#", "X", "L", "1">>, <<"G", "l", "y", "c", "a", "n", ":", "H", "e", "x", "#", "B", "R", "A", "N", "C", "H">>}

\* A residue with a bracket whose content is a list of segments joined by "|"
PipeInputs ==
    {<<"K", "[">> \o Join(l, <<"|">>) \o <<"]">> : l \in ListsUpTo(PipeSegments, MaxPipeSegments) \ {<<>>}}

SpecPipes == InitWith(PipeInputs) /\ [][Next]_vars

\* C26: FromProforma returns a model or an error for every input and never
\* ends the program with a runtime panic, whatever segments the content of
\* a bracket is made of.
NeverPanics ==
    model1 # None =>
        /\ ~Val(model1).panics
        /\ (Val(model1).err = None) # (Val(model1).seq = None)

\* ---- a "?" after the leading blocks ----

\* what follows the leading blocks: residues with and without a (?...)
\* group, and a C-terminal modification
LaterMarkRests == {<<"(", "?", "K", ")", "K">>, <<"K", "(", "?", "K", ")">>, <<"K", "(", "?", "K", "R", ")", "-", "[", "c", "]">>, <<"K", "R">>, <<"R", "(", "?", "K", ")", "K", "-", "[", "c", "]">>}

\* Inputs [n1]..[nk] mark REST where mark is "-" (N-terminal blocks) or
\* "?" (unknown-position blocks)
LaterMarkForms ==
    {[blocks |-> n, mark |-> m, rest |-> r, text |-> BlocksText(n) \o <<m>> \o r] :
        n \in ListsUpTo(TerminalNames, MaxTerminalMods) \ {<<>>},
        m \in {"-", "?"},
        r \in LaterMarkRests}

LaterMarkInputs == {f.text : f \in LaterMarkForms}

SpecLaterMark == InitWith(LaterMarkInputs) /\ [][Next]_vars

\* the texts of the modifications of s at the virtual position p
TextsAt(s, p) == [k \in 1..Len(s.mods[p]) |-> ModToProforma(s.mods[p][k])]

\* C27: leading blocks stand at position -4 only when "?" follows them
\* directly; leading blocks followed by "-" stand at position -1 even when
\* a "?" comes later in the text, and what follows the mark is parsed as it
\* is on its own.
UnknownOnlyBeforeMark ==
    model1 # None =>
        \A f \in LaterMarkForms : f.text = input =>
            /\ Accepted(model1)
            /\ TextsAt(Model(model1), -4) = (IF f.mark = "?" THEN f.blocks ELSE <<>>)
            /\ TextsAt(Model(model1), -1) = (IF f.mark = "-" THEN f.blocks ELSE <<>>)
            /\ Accepted(Some(FromProforma(f.rest)))
            /\ ResidueText1(Model(model1)) = ResidueText1(Val(FromProforma(f.rest).seq))
            /\ TextsAt(Model(model1), -2) = TextsAt(Val(FromProforma(f.rest).seq), -2)

\* ---- modifications of the residue body ----

MaxBodyTokens == 3

\* what a residue body is made of: a residue, a bracket and a brace
\* modification
BodyTokens ==
    {[text |-> <<"K">>, mod |-> <<>>], [text |-> <<"[", "a", "]">>, mod |-> <<<<"a">>>>],
     [text |-> <<"{", "b", "}">>, mod |-> <<<<"b">>>>]}

\* Inputs made of a residue body, on its own or after an N-terminal
\* modification; a body on its own does not start with a brace, which
\* would be a labile block
BodyForms ==
    {f \in {[prefix |-> p, text |-> p \o ConcatAll([k \in 1..Len(l) |-> l[k].text]),
             mods |-> ConcatAll([k \in 1..Len(l) |-> l[k].mod])] :
                p \in {<<>>, <<"[", "x", "]", "-">>},
                l \in ListsUpTo(BodyTokens, MaxBodyTokens) \ {<<>>}} :
        f.prefix # <<>> \/ f.text[1] # "{"}

BodyInputs == {f.text : f \in BodyForms}

SpecBody == InitWith(BodyInputs) /\ [][Next]_vars

\* the texts of the modifications attached to the residues of s, in order
ResidueModTexts(s) ==
    ConcatAll([i \in 1..Len(s.seq) |->
        [k \in 1..Len(s.seq[i].mods) |-> ModToProforma(s.seq[i].mods[k])]])

\* C28: when an input is accepted, every bracket and brace modification
\* of its residue body is attached to a residue of the model: none is
\* dropped without an error.
BodyModsKept ==
    model1 # None =>
        \A f \in BodyForms : f.text = input =>
            ~Accepted(model1) \/ ResidueModTexts(Model(model1)) = f.mods

\* ---- the segments of a global modification ----

MaxGlobalSegments == 2

\* the segments after the first one: placement control tags (tag: the
\* field each sets) and others
GlobalSegments ==
    {[text |-> <<"I", "N", "F", "O", ":", "x">>, tag |-> "none"], [text |-> <<"+", "1">>, tag |-> "none"],
     [text |-> <<"U", ":", "b">>, tag |-> "none"], [text |-> <<"L", "i", "m", "i", "t", ":", "x">>, tag |-> "none"],
     [text |-> <<"L", "i", "m", "i", "t", ":", "2">>, tag |-> "limit"], [text |-> <<"C", "o", "M", "K", "P">>, tag |-> "known"],
     [text |-> <<"C", "o", "M", "U", "P">>, tag |-> "unknown"], [text |-> <<"P", "o", "s", "i", "t", "i", "o", "n", ":", "S">>, tag |-> "position"]}

\* Inputs with one fixed global modification of several segments, no
\* segment written twice
GlobalSegmentForms ==
    {[text |-> <<"<", "[">> \o Join(<<v>> \o [k \in 1..Len(l) |-> l[k].text], <<"|">>) \o <<"]", "@", "K", ">", "K">>,
      first |-> v, segments |-> l] :
        v \in {<<"a">>, <<"U", ":", "a">>},
        l \in {x \in ListsUpTo(GlobalSegments, MaxGlobalSegments) \ {<<>>} :
                  \A i, j \in 1..Len(x) : x[i] = x[j] => i = j}}

GlobalSegmentInputs == {f.text : f \in GlobalSegmentForms}

SpecGlobalSegments == InitWith(GlobalSegmentInputs) /\ [][Next]_vars

\* C29: a global modification keeps every segment of its content: the
\* placement control tags set their fields, and the first segment and every
\* segment that is no tag are in the text ToProforma makes of the
\* modification, in the order written.
GlobalSegmentsKept ==
    model1 # None =>
        \A f \in GlobalSegmentForms : f.text = input =>
            /\ Accepted(model1)
            /\ Len(Model(model1).globalMods) = 1
            /\ LET m == Model(model1).globalMods[1].mod
                   tags == {f.segments[k].tag : k \in 1..Len(f.segments)}
                   kept == SelectSeq(f.segments, LAMBDA g : g.tag = "none")
                   written == Split(ModToProforma(m), <<"|">>)
               IN  /\ (Len(m.positionConstraint) > 0) = ("position" \in tags)
                   /\ (m.limitPerPosition # None) = ("limit" \in tags)
                   /\ m.colocalizeKnown = ("known" \in tags)
                   /\ m.colocalizeUnknown = ("unknown" \in tags)
                   /\ Len(written) >= 1 + Len(kept)
                   /\ SubSeq(written, 1, 1 + Len(kept))
                          = <<f.first>> \o [k \in 1..Len(kept) |-> kept[k].text]

\* ---- the global modifications of chains and peptidoforms ----

\* chains and peptidoforms with the texts of their global modifications
GlobalPieces ==
    {[text |-> <<"K">>, globals |-> <<>>], [text |-> <<"<", "[", "a", "]", "@", "K", ">", "K">>, globals |-> <<<<"<", "[", "a", "]", "@", "K", ">">>>>],
     [text |-> <<"<", "[", "b", "]", "@", "R", ">", "R">>, globals |-> <<<<"<", "[", "b", "]", "@", "R", ">">>>>], [text |-> <<"<", "1", "5", "N", ">", "K">>, globals |-> <<<<"<", "1", "5", "N", ">">>>>]}

\* Inputs of up to MaxChains pieces joined by "//" or by "+"
GlobalChainForms ==
    {[text |-> Join([k \in 1..Len(ps) |-> ps[k].text], sep), pieces |-> ps, sep |-> sep] :
        ps \in ListsUpTo(GlobalPieces, MaxChains) \ {<<>>},
        sep \in {<<"/", "/">>, <<"+">>}}

GlobalChainInputs == {f.text : f \in GlobalChainForms}

SpecGlobalChains == InitWith(GlobalChainInputs) /\ [][Next]_vars

\* the texts of the global modifications of each chain or peptidoform of s
MemberGlobals(s) ==
    [k \in 1..Len(ToProformaMembers(s)) |->
        [g \in 1..Len(ToProformaMembers(s)[k].globalMods) |->
            GlobalModToProforma(ToProformaMembers(s)[k].globalMods[g])]]

\* C30: each chain or peptidoform holds the global modifications it is
\* written with, ToProforma writes each with its own global modifications,
\* and the model parsed from that text gives each the same global
\* modifications again.
OwnGlobalsWritten ==
    model1 # None =>
        \A f \in GlobalChainForms : f.text = input =>
            /\ Accepted(model1)
            /\ MemberGlobals(Model(model1)) = [k \in 1..Len(f.pieces) |-> f.pieces[k].globals]
            /\ text1 # None => Val(text1) = f.text
            /\ model2 # None =>
                   /\ Accepted(model2)
                   /\ MemberGlobals(Model(model2)) = MemberGlobals(Model(model1))

====
